---- MODULE Spec2Model ----
(***************************************************************************)
(* Emotion-tagged quote recommendation: the rule-based labelling of the    *)
(* merge scripts (assign_emotion), the training-time labelling, and the    *)
(* serving engine TrainedQuoteEngine with its HTTP handlers.               *)
(*                                                                         *)
(* Texts are TLA+ strings handled character by character (SubSeq on a      *)
(* string yields a string), so lower(), strip(), split() and the `in`      *)
(* substring test are computed, not assumed.                               *)
(***************************************************************************)
EXTENDS Integers, Sequences, FiniteSets, TLC

VARIABLES
    vectorizer,          \* TrainedQuoteEngine.vectorizer
    emotion_classifier,  \* TrainedQuoteEngine.emotion_classifier
    quotes_df,           \* TrainedQuoteEngine.quotes_df
    metadata,            \* TrainedQuoteEngine.metadata (an attribute set only by load_models)
    is_loaded,           \* TrainedQuoteEngine.is_loaded
    pc,                  \* "constructed" before load_models has run, "serving" after;
                         \* for the offline scripts the position of the script
                         \* ("archive", "dataset", "merged", "cleaned", "trained", ...)
    out                  \* what the last operation returned (response or return value);
                         \* for the offline scripts their input and what they wrote

vars == <<vectorizer, emotion_classifier, quotes_df, metadata, is_loaded, pc, out>>

engine == <<vectorizer, emotion_classifier, quotes_df, metadata, is_loaded>>

(***************************************************************************)
(* Python values that are not strings. Where a string is expected (tags,   *)
(* author) None and a pandas NaN are marker strings no text equals; where  *)
(* an object is expected (the engine's attributes) None and a never        *)
(* assigned attribute are records.                                         *)
(***************************************************************************)
None == "<None>"
NaN == "<NaN>"
NoneObj == [py |-> "None"]
Unset == [py |-> "unset"]

(***************************************************************************)
(* Bounds of the model.                                                    *)
(***************************************************************************)
MaxWords == 2
MaxCorpus == 3
MaxTopK == 2

\* ------------------------------------------------------------- the inputs

\* The texts requests carry and the quotes corpora hold.
RequestTexts == {
    "Every day I miss my mother who died last year",
    "I got dumped, such heartbreak",
    "I feel happy",
    "My mother died",
    "Stay curious",
    "I am SAD" }

\* A quote of 51 words
LongQuote ==
    "pain a b c d e a b c d e a b c d e a b c d e a b c d e a b c d e a b c d e a b c d e a b c d e a b c d e"

\* The rows of the training dataset: quote, author and category
QuotePool == <<
    [quote |-> "My mother died", author |-> "Ann", category |-> "grief"],
    [quote |-> "Pain is alone", author |-> "Bo", category |-> "Grief"],
    [quote |-> "Love heals", author |-> NaN, category |-> "love"],
    [quote |-> "Stay curious", author |-> "Cy", category |-> "general"],
    [quote |-> "After heartbreak you grow", author |-> "Di", category |-> "love"],
    [quote |-> LongQuote, author |-> "Ed", category |-> "grief"],
    [quote |-> "Sad and alone", author |-> "Flo", category |-> "grief"] >>

\* Every text the serving engine handles. The pure text functions are tabulated
\* over these once (the *Table definitions) and computed for any other text.
Texts == RequestTexts \cup {QuotePool[i].quote : i \in DOMAIN QuotePool}

\* ------------------------------------------------------------------ strings

Char(s, i) == SubSeq(s, i, i)

Min(S) == CHOOSE x \in S : \A y \in S : x <= y

LowerChar(c) ==
    CASE c = "A" -> "a" [] c = "B" -> "b" [] c = "C" -> "c" [] c = "D" -> "d"
      [] c = "E" -> "e" [] c = "F" -> "f" [] c = "G" -> "g" [] c = "H" -> "h"
      [] c = "I" -> "i" [] c = "J" -> "j" [] c = "K" -> "k" [] c = "L" -> "l"
      [] c = "M" -> "m" [] c = "N" -> "n" [] c = "O" -> "o" [] c = "P" -> "p"
      [] c = "Q" -> "q" [] c = "R" -> "r" [] c = "S" -> "s" [] c = "T" -> "t"
      [] c = "U" -> "u" [] c = "V" -> "v" [] c = "W" -> "w" [] c = "X" -> "x"
      [] c = "Y" -> "y" [] c = "Z" -> "z" [] OTHER -> c

\* The characters i..j of s, each lowercased
RECURSIVE LowerRange(_, _, _)
LowerRange(s, i, j) ==
    IF i > j THEN ""
    ELSE IF i = j THEN LowerChar(Char(s, i))
    ELSE LET m == (i + j) \div 2
         IN  LowerRange(s, i, m) \o LowerRange(s, m + 1, j)

LowerTable == [t \in Texts |-> LowerRange(t, 1, Len(t))]

\* str.lower()
Lower(s) == IF s \in DOMAIN LowerTable THEN LowerTable[s] ELSE LowerRange(s, 1, Len(s))

\* Python's `kw in s` on strings
Contains(s, kw) ==
    \E i \in 1..(Len(s) - Len(kw) + 1) : SubSeq(s, i, i + Len(kw) - 1) = kw

\* str(v) for the values the model passes around
PyStr(v) == IF v = None THEN "None" ELSE IF v = NaN THEN "nan" ELSE v

\* bool(v): None and the empty string are falsy, NaN and other strings are truthy
Truthy(v) == v # None /\ v # ""

\* The whitespace str.strip() and str.split() act on
IsSpace(c) == c \in {" ", "\t", "\n"}

\* Variant of str.strip(): the text as it came
StripNothing(s) == s

\* str.strip()
Strip(s) ==
    LET keep == {i \in 1..Len(s) : ~IsSpace(Char(s, i))}
    IN  IF keep = {} THEN ""
        ELSE SubSeq(s, Min(keep), CHOOSE j \in keep : \A k \in keep : k <= j)

\* len(text.split()): the number of maximal runs of non-whitespace characters
SplitLen(s) ==
    Cardinality({i \in 1..Len(s) :
        /\ ~IsSpace(Char(s, i))
        /\ (i = 1 \/ IsSpace(Char(s, i - 1)))})

SplitLenTable == [t \in Texts |-> SplitLen(t)]

\* ----------------------------------------------------------------- taxonomy

\* Variant of the taxonomy: love declared before the other emotions
EMOTION_KEYWORDS_love_first == <<
    [label |-> "love", keywords |-> <<"love", "heart", "relationship", "romance",
        "affection", "care", "cherish", "adore">>],
    [label |-> "grief", keywords |-> <<"grief", "loss", "death", "died", "lost",
        "mourning", "bereavement", "sadness", "pain", "hurt", "broken", "alone",
        "lonely", "empty">>],
    [label |-> "depression", keywords |-> <<"depressed", "sad", "hopeless",
        "despair", "tired", "exhausted", "broken", "hurt", "pain", "suffering",
        "dark", "empty", "numb">>],
    [label |-> "anxiety", keywords |-> <<"anxious", "worry", "fear", "scared",
        "panic", "stress", "overwhelmed", "nervous", "restless">>],
    [label |-> "motivation", keywords |-> <<"motivated", "motivate", "drive",
        "energy", "work", "career", "goal", "achieve", "success", "inspire",
        "dream", "aspire">>],
    [label |-> "resilience", keywords |-> <<"failure", "fail", "challenge",
        "difficult", "hard", "struggle", "overcome", "persevere", "tough",
        "strength", "courage">>],
    [label |-> "mindfulness", keywords |-> <<"mind", "think", "thought", "calm",
        "peace", "meditation", "present", "breathe", "breath">>],
    [label |-> "happiness", keywords |-> <<"happy", "happiness", "joy", "cheer",
        "bright", "smile", "laugh", "delight", "pleasure">>],
    [label |-> "wisdom", keywords |-> <<"wisdom", "learn", "knowledge",
        "experience", "understand", "insight", "truth", "philosophy">>],
    [label |-> "hope", keywords |-> <<"hope", "faith", "believe", "trust",
        "optimism", "positive", "future", "better", "light", "heal">>] >>

\* EMOTION_KEYWORDS of the merge scripts, in declaration order
EMOTION_KEYWORDS == <<
    [label |-> "grief", keywords |-> <<"grief", "loss", "death", "died", "lost",
        "mourning", "bereavement", "sadness", "pain", "hurt", "broken", "alone",
        "lonely", "empty">>],
    [label |-> "depression", keywords |-> <<"depressed", "sad", "hopeless",
        "despair", "tired", "exhausted", "broken", "hurt", "pain", "suffering",
        "dark", "empty", "numb">>],
    [label |-> "anxiety", keywords |-> <<"anxious", "worry", "fear", "scared",
        "panic", "stress", "overwhelmed", "nervous", "restless">>],
    [label |-> "motivation", keywords |-> <<"motivated", "motivate", "drive",
        "energy", "work", "career", "goal", "achieve", "success", "inspire",
        "dream", "aspire">>],
    [label |-> "resilience", keywords |-> <<"failure", "fail", "challenge",
        "difficult", "hard", "struggle", "overcome", "persevere", "tough",
        "strength", "courage">>],
    [label |-> "mindfulness", keywords |-> <<"mind", "think", "thought", "calm",
        "peace", "meditation", "present", "breathe", "breath">>],
    [label |-> "happiness", keywords |-> <<"happy", "happiness", "joy", "cheer",
        "bright", "smile", "laugh", "delight", "pleasure">>],
    [label |-> "love", keywords |-> <<"love", "heart", "relationship", "romance",
        "affection", "care", "cherish", "adore">>],
    [label |-> "wisdom", keywords |-> <<"wisdom", "learn", "knowledge",
        "experience", "understand", "insight", "truth", "philosophy">>],
    [label |-> "hope", keywords |-> <<"hope", "faith", "believe", "trust",
        "optimism", "positive", "future", "better", "light", "heal">>] >>

\* emotion_keywords of the training passes, in declaration order
emotion_keywords == <<
    [label |-> "grief", keywords |-> <<"grief", "loss", "death", "died", "lost",
        "mourning", "bereavement", "sadness", "pain", "hurt", "broken", "curse",
        "silence", "alone", "lonely", "empty", "nothing feels real",
        "cannot breathe", "barely holding on">>],
    [label |-> "depression", keywords |-> <<"depressed", "sad", "hopeless",
        "despair", "tired", "exhausted", "broken", "hurt", "pain", "suffering",
        "dark", "empty", "numb", "nothing matters", "why does it hurt", "exist",
        "did not ask for this">>],
    [label |-> "anxiety", keywords |-> <<"anxious", "worry", "fear", "scared",
        "panic", "stress", "overwhelmed", "cannot breathe", "tight", "nervous",
        "restless", "scream">>],
    [label |-> "motivation", keywords |-> <<"motivated", "motivate", "drive",
        "energy", "work", "career", "goal", "achieve", "success", "inspire",
        "dream", "aspire">>],
    [label |-> "resilience", keywords |-> <<"failure", "fail", "challenge",
        "difficult", "hard", "struggle", "overcome", "persevere", "tough",
        "strength", "courage">>],
    [label |-> "mindfulness", keywords |-> <<"mind", "think", "thought", "calm",
        "peace", "meditation", "present", "breathe", "breath">>],
    [label |-> "happiness", keywords |-> <<"happy", "happiness", "joy", "cheer",
        "bright", "smile", "laugh", "delight", "pleasure">>],
    [label |-> "love", keywords |-> <<"love", "heart", "relationship", "romance",
        "affection", "care", "cherish", "adore">>],
    [label |-> "wisdom", keywords |-> <<"wisdom", "learn", "knowledge",
        "experience", "understand", "insight", "truth", "philosophy">>],
    [label |-> "hope", keywords |-> <<"hope", "faith", "believe", "trust",
        "optimism", "positive", "future", "better", "light", "heal">>] >>

\* any(kw in s for kw in keywords)
AnyKeyword(s, keywords) == \E k \in 1..Len(keywords) : Contains(s, keywords[k])

\* Variant of the loop: the last entry with a keyword present wins
RECURSIVE AssignFromLast(_, _, _)
AssignFromLast(i, text, tags) ==
    IF i > Len(EMOTION_KEYWORDS) THEN "general"
    ELSE LET later == AssignFromLast(i + 1, text, tags)
         IN  IF later # "general" THEN later
             ELSE IF \E k \in 1..Len(EMOTION_KEYWORDS[i].keywords) :
                        \/ Contains(text, EMOTION_KEYWORDS[i].keywords[k])
                        \/ Contains(tags, EMOTION_KEYWORDS[i].keywords[k])
             THEN EMOTION_KEYWORDS[i].label
             ELSE "general"

\* Variant of the loop: the default label of the training pass ('wisdom') after
\* the last entry
RECURSIVE AssignFromWisdom(_, _, _)
AssignFromWisdom(i, text, tags) ==
    IF i > Len(EMOTION_KEYWORDS) THEN "wisdom"
    ELSE IF \E k \in 1..Len(EMOTION_KEYWORDS[i].keywords) :
                \/ Contains(text, EMOTION_KEYWORDS[i].keywords[k])
                \/ Contains(tags, EMOTION_KEYWORDS[i].keywords[k])
         THEN EMOTION_KEYWORDS[i].label
         ELSE AssignFromWisdom(i + 1, text, tags)

\* The loop of assign_emotion from taxonomy entry i on: the first entry with a
\* keyword in the text or in the tags returns its label, 'general' after the last.
RECURSIVE AssignFrom(_, _, _)
AssignFrom(i, text, tags) ==
    IF i > Len(EMOTION_KEYWORDS) THEN "general"
    ELSE IF \E k \in 1..Len(EMOTION_KEYWORDS[i].keywords) :
                \/ Contains(text, EMOTION_KEYWORDS[i].keywords[k])
                \/ Contains(tags, EMOTION_KEYWORDS[i].keywords[k])
         THEN EMOTION_KEYWORDS[i].label
         ELSE AssignFrom(i + 1, text, tags)

\* assign_emotion(text, tags=None)
assign_emotion(text, tags) ==
    AssignFrom(1, Lower(PyStr(text)),
               IF Truthy(tags) THEN Lower(PyStr(tags)) ELSE "")

\* The labelling loop of train_simple_system: the first emotion of emotion_keywords
\* with a keyword in the lowercased quote, 'wisdom' when none matches.
RECURSIVE MatchedFrom(_, _)
MatchedFrom(i, quote_text) ==
    IF i > Len(emotion_keywords) THEN <<>>
    ELSE (IF AnyKeyword(quote_text, emotion_keywords[i].keywords)
          THEN <<emotion_keywords[i].label>> ELSE <<>>)
         \o MatchedFrom(i + 1, quote_text)

assigned_emotion_of(quote) ==
    LET matched_emotions == MatchedFrom(1, Lower(quote))
    IN  IF matched_emotions # <<>> THEN matched_emotions[1] ELSE "wisdom"

AssignedEmotionTable == [t \in Texts |-> assigned_emotion_of(t)]

\* ------------------------------------------------------------ the artifacts

\* Series.fillna(value)
FillNa(v, value) == IF v = NaN THEN value ELSE v

\* A row as train_simple_system saves it: quote, author and category cleaned,
\* assigned_emotion from the labelling loop
SimpleRow(e) ==
    [quote |-> FillNa(e.quote, ""), author |-> FillNa(e.author, "Unknown"),
     category |-> FillNa(e.category, "general"),
     assigned_emotion |-> AssignedEmotionTable[e.quote]]

\* A row as QuoteSystemTrainer saves it: quote renamed text, category renamed
\* emotion, and the cluster
TrainerRow(e) ==
    [text |-> FillNa(e.quote, ""), author |-> FillNa(e.author, "Unknown"),
     emotion |-> FillNa(e.category, "general"), cluster |-> 0]

RECURSIVE Pick(_, _)
\* The entries of QuotePool whose index is in S, in pool order, from index i on
Pick(S, i) ==
    IF i > Len(QuotePool) THEN <<>>
    ELSE (IF i \in S THEN <<QuotePool[i]>> ELSE <<>>) \o Pick(S, i + 1)

\* F(v), with v evaluated once (a local name bound to a computed value)
Bind(v, F(_)) == CHOOSE r \in {F(y) : y \in {v}} : TRUE

RECURSIVE MapFrom(_, _, _)
MapFrom(f(_), seq, i) ==
    IF i > Len(seq) THEN <<>> ELSE <<f(seq[i])>> \o MapFrom(f, seq, i + 1)

\* [f(x) for x in seq]
Map(f(_), seq) == Bind(seq, LAMBDA s : MapFrom(f, s, 1))

\* A DataFrame: its columns and its rows, each row a record over the columns
SimpleFrame(entries) ==
    [columns |-> {"quote", "author", "category", "assigned_emotion"},
     rows |-> Map(SimpleRow, entries)]

TrainerFrame(entries) ==
    [columns |-> {"text", "author", "emotion", "cluster"},
     rows |-> Map(TrainerRow, entries)]

\* The corpora quotes_df.pkl may hold: up to MaxCorpus pool quotes in either layout
Corpora ==
    LET picks == {Pick(S, 1) : S \in {T \in SUBSET (1..Len(QuotePool)) :
                                          Cardinality(T) <= MaxCorpus}}
    IN  {SimpleFrame(e) : e \in picks} \cup {TrainerFrame(e) : e \in picks}

\* The fitted TfidfVectorizer vectorizer.pkl may hold: its vocabulary
Vectorizers == {
    [vocabulary |-> {"mother", "died", "pain", "love", "heals", "heartbreak",
                     "curious", "stay", "happy", "sad"}] }

\* The fitted classifiers emotion_classifier.pkl may hold: one that reproduces the
\* labelling it was fitted on, one fitted on a single class, and one fitted on
\* features of another vectorizer (predict raises).
Classifiers == {
    [kind |-> "fitted", classes_ |-> <<"anxiety", "depression", "grief", "happiness",
        "hope", "love", "mindfulness", "motivation", "resilience", "wisdom">>,
     confidence |-> 80],
    [kind |-> "single", classes_ |-> <<"love">>, confidence |-> 100],
    [kind |-> "mismatch", classes_ |-> <<"grief", "wisdom">>, confidence |-> 60] }

MetadataFull == [keys |-> {"training_date", "dataset_size", "emotion_classes",
                           "vectorizer_features"}]
MetadataEmpty == [keys |-> {}]

\* What a file of models_dir may be: not there, or not loadable
Absent == [file |-> "absent"]
Corrupt == [file |-> "corrupt"]

\* The models directories the server is started on: every artifact there, with
\* any corpus under the classifier fitted on the labelling and one corpus under
\* any classifier; and every combination of a missing, an unloadable or a good
\* file, with one corpus.
ModelDirs ==
    [vectorizer : Vectorizers,
     emotion_classifier : {CHOOSE c \in Classifiers : c.kind = "fitted"},
     quotes_df : Corpora, metadata : {MetadataFull}]
    \cup
    [vectorizer : Vectorizers, emotion_classifier : Classifiers,
     quotes_df : {SimpleFrame(Pick({2, 3, 5}, 1))}, metadata : {MetadataFull}]
    \cup
    [vectorizer : {Absent, Corrupt} \cup Vectorizers,
     emotion_classifier : {Absent, Corrupt,
                           CHOOSE c \in Classifiers : c.kind = "fitted"},
     quotes_df : {Absent, Corrupt, SimpleFrame(Pick({1, 2}, 1))},
     metadata : {Absent, Corrupt, MetadataEmpty, MetadataFull}]

\* ---------------------------------------------------------------- the engine

\* An exception propagating out of a call, and a normal return
Raised == [raised |-> TRUE]
Returned(v) == [raised |-> FALSE, value |-> v]

\* The keyword chain of _fallback_sentiment_analysis
FallbackEmotion(user_input) ==
    LET user_input_lower == Lower(user_input)
    IN  IF AnyKeyword(user_input_lower,
                      <<"died", "death", "lost", "mom", "mother", "grief">>)
        THEN "grief"
        ELSE IF AnyKeyword(user_input_lower,
                           <<"sad", "depressed", "hopeless", "tired">>)
        THEN "depression"
        ELSE IF AnyKeyword(user_input_lower,
                           <<"anxious", "worry", "fear", "stress">>)
        THEN "anxiety"
        ELSE "general"

FallbackEmotionTable == [t \in Texts |-> FallbackEmotion(t)]

\* _fallback_sentiment_analysis
_fallback_sentiment_analysis(user_input) ==
    LET emotion == IF user_input \in DOMAIN FallbackEmotionTable
                   THEN FallbackEmotionTable[user_input]
                   ELSE FallbackEmotion(user_input)
    IN  [primary_emotion |-> emotion, confidence |-> 70,
         emotion_probabilities |-> {<<emotion, 70>>}]

\* emotion_classifier.predict(vectorizer.transform([user_input]))[0]
Predict(clf, user_input) ==
    CASE clf.kind = "fitted" ->
            Returned(IF user_input \in DOMAIN AssignedEmotionTable
                     THEN AssignedEmotionTable[user_input]
                     ELSE assigned_emotion_of(user_input))
      [] clf.kind = "single" -> Returned(clf.classes_[1])
      [] OTHER -> Raised

\* analyze_sentiment, on the engine state (loaded, clf)
analyze_sentiment(loaded, clf, user_input) ==
    IF ~loaded \/ clf = NoneObj THEN _fallback_sentiment_analysis(user_input)
    ELSE LET predicted == Predict(clf, user_input)
         IN  IF predicted.raised THEN _fallback_sentiment_analysis(user_input)
             ELSE [primary_emotion |-> predicted.value,
                   confidence |-> clf.confidence,
                   emotion_probabilities |->
                       {<<clf.classes_[i],
                          IF clf.classes_[i] = predicted.value
                          THEN clf.confidence ELSE 0>> : i \in 1..Len(clf.classes_)}]

\* word_count of _filter_quotes_by_length
word_count(text) ==
    IF text = NaN THEN 0
    ELSE IF text \in DOMAIN SplitLenTable THEN SplitLenTable[text]
    ELSE SplitLen(text)

\* Variant of the threshold: the 65 words of the archive merge
max_words_archive == 65

\* max_words of _filter_quotes_by_length
max_words == 50

\* Variant of the filter: only quotes below max_words are kept
_filter_quotes_by_length_below(df) ==
    IF df = NoneObj THEN Returned(df)
    ELSE IF df.rows = <<>> THEN Returned(df)
    ELSE IF "quote" \notin df.columns THEN Raised
    ELSE LET short(row) == word_count(row.quote) < max_words
         IN  Returned([df EXCEPT !.rows = SelectSeq(df.rows, short)])

\* _filter_quotes_by_length: None or an empty frame is returned as it is; the
\* 'quote' column is read whatever the layout (KeyError when there is none)
_filter_quotes_by_length(df) ==
    IF df = NoneObj THEN Returned(df)
    ELSE IF df.rows = <<>> THEN Returned(df)
    ELSE IF "quote" \notin df.columns THEN Raised
    ELSE LET short(row) == word_count(row.quote) <= max_words
         IN  Returned([df EXCEPT !.rows = SelectSeq(df.rows, short)])

\* numpy's RandomState(42).permutation(n), 0-based, for the n the model reaches
SeedPermutation(n) ==
    CASE n = 0 -> <<>>
      [] n = 1 -> <<0>>
      [] n = 2 -> <<1, 0>>
      [] n = 3 -> <<0, 1, 2>>
      [] n = 4 -> <<1, 3, 0, 2>>
      [] n = 5 -> <<1, 4, 2, 0, 3>>
      [] n = 6 -> <<0, 1, 5, 2, 4, 3>>
      [] n = 7 -> <<0, 1, 5, 2, 4, 3, 6>>

\* Variant of the sampling: sample(n=k) without random_state, drawing from the
\* process-wide generator that the previous call has advanced
SampleUnseeded(rows, k) ==
    LET n == Len(rows)
        drawn == IF out.op = "get_recommendations"
                 THEN [i \in 1..n |-> SeedPermutation(n)[n + 1 - i]]
                 ELSE SeedPermutation(n)
        take(loc) == rows[loc + 1]
    IN  Map(take, SubSeq(drawn, 1, k))

\* DataFrame.sample(n=k, random_state=42): the rows at the first k places of the
\* seeded permutation, in that order
Sample(rows, k) ==
    LET take(loc) == rows[loc + 1]
    IN  Map(take, SubSeq(SeedPermutation(Len(rows)), 1, k))

\* Variant of the selection step: sampling already at len == top_k
SelectQuotesStrict(rows, top_k) ==
    IF Len(rows) < top_k THEN rows ELSE Sample(rows, top_k)

\* The selection step of _get_emotion_based_quotes
SelectQuotes(rows, top_k) ==
    IF Len(rows) <= top_k THEN rows ELSE Sample(rows, top_k)

\* quote['quote'] if 'quote' in quote else quote['text']
QuoteText(row) == IF "quote" \in DOMAIN row THEN row.quote ELSE row.text

\* quote.get('author', 'Unknown')
QuoteAuthor(row) == IF "author" \in DOMAIN row THEN row.author ELSE "Unknown"

\* Variant of the label filter: the stored label compared as it is
EmotionQuotesExact(df, emotion) ==
    LET matches(row) ==
            IF "assigned_emotion" \in df.columns
            THEN row.assigned_emotion = emotion
            ELSE row.emotion = emotion
    IN  [df EXCEPT !.rows = SelectSeq(df.rows, matches)]

\* emotion_quotes of _get_emotion_based_quotes: the rows whose assigned_emotion
\* (or emotion, when there is no assigned_emotion column) equals the label, both
\* lowercased
EmotionQuotes(df, emotion) ==
    LET matches(row) ==
            IF "assigned_emotion" \in df.columns
            THEN Lower(row.assigned_emotion) = Lower(emotion)
            ELSE Lower(row.emotion) = Lower(emotion)
    IN  [df EXCEPT !.rows = SelectSeq(df.rows, matches)]

\* _get_emotion_based_quotes
_get_emotion_based_quotes(df, emotion, top_k) ==
    IF df = NoneObj THEN Returned(<<>>)
    ELSE IF "assigned_emotion" \notin df.columns /\ "emotion" \notin df.columns
    THEN Raised
    ELSE
    LET result(quote) ==
            [text |-> QuoteText(quote),
             author |-> QuoteAuthor(quote),
             emotion |-> emotion,
             similarity_score |-> 90,
             match_type |-> "emotion_based"]
    IN  Bind(EmotionQuotes(df, emotion), LAMBDA emotion_quotes :
        IF emotion_quotes.rows = <<>> THEN Returned(<<>>)
        ELSE Bind(_filter_quotes_by_length(emotion_quotes), LAMBDA filtered :
             IF filtered.raised THEN Raised
             ELSE Bind(SelectQuotes(filtered.value.rows, top_k),
                       LAMBDA selected_quotes :
                  Returned(Map(result, selected_quotes)))))

\* The characters of a token of the vectorizer's analyzer (\w after lowercasing)
WordChars == "abcdefghijklmnopqrstuvwxyz0123456789_"

IsWordChar(c) == Contains(WordChars, c)

\* The analyzer of TfidfVectorizer on a lowercased text, from position i on: the
\* runs of two or more word characters, in order
RECURSIVE AnalyzeFrom(_, _)
AnalyzeFrom(l, i) ==
    LET starts == {j \in i..Len(l) : IsWordChar(Char(l, j))}
    IN  IF starts = {} THEN <<>>
        ELSE LET start == Min(starts)
                 stop == Min({j \in start..Len(l) :
                                j = Len(l) \/ ~IsWordChar(Char(l, j + 1))})
             IN  (IF stop > start THEN <<SubSeq(l, start, stop)>> ELSE <<>>)
                 \o AnalyzeFrom(l, stop + 1)

Analyze(s) == AnalyzeFrom(Lower(s), 1)

TokensTable == [t \in Texts |-> Analyze(t)]

Range(seq) == {seq[i] : i \in 1..Len(seq)}

\* The set of terms of a text
Tokens(s) == Range(IF s \in DOMAIN TokensTable THEN TokensTable[s] ELSE Analyze(s))

\* cosine_similarity of the TF-IDF vectors of two texts, in percent, as far as the
\* terms decide it: 0 when they share no vocabulary term, 100 when their vocabulary
\* terms are the same, in between otherwise
SimilarityPercent(vec, user_input, quote_text) ==
    LET a == Tokens(user_input) \cap vec.vocabulary
        b == Tokens(quote_text) \cap vec.vocabulary
    IN  IF a \cap b = {} THEN 0 ELSE IF a = b THEN 100 ELSE 50

\* The minimum similarity threshold of _get_similarity_quotes (0.1), in percent
SimilarityThreshold == 10

\* np.argsort(similarities)[::-1]: the indices by decreasing similarity, equal
\* similarities by decreasing index
RECURSIVE ArgsortDescending(_, _)
ArgsortDescending(sims, left) ==
    IF left = {} THEN <<>>
    ELSE LET best == CHOOSE i \in left : \A j \in left :
                         \/ sims[i] > sims[j]
                         \/ (sims[i] = sims[j] /\ i >= j)
         IN  <<best>> \o ArgsortDescending(sims, left \ {best})

\* seq[:n] for n >= 0
Prefix(seq, n) ==
    Bind(seq, LAMBDA s : SubSeq(s, 1, IF n < Len(s) THEN n ELSE Len(s)))

\* _get_similarity_quotes: any exception inside is caught and gives []
_get_similarity_quotes(vec, df, user_input, top_k) ==
    IF vec = NoneObj \/ df = NoneObj THEN <<>>
    ELSE Bind(_filter_quotes_by_length(df), LAMBDA filtered :
         IF filtered.raised THEN <<>>
         ELSE IF filtered.value.rows = <<>> THEN <<>>
         ELSE
         LET rows == filtered.value.rows
             similarity(row) ==
                 SimilarityPercent(vec, user_input, QuoteText(row))
         IN  Bind(Map(similarity, rows), LAMBDA similarities :
             LET top_indices == Prefix(ArgsortDescending(similarities, 1..Len(rows)),
                                       top_k * 2)
                 near(idx) == similarities[idx] > SimilarityThreshold
                 result(idx) ==
                     [text |-> QuoteText(rows[idx]),
                      author |-> QuoteAuthor(rows[idx]),
                      emotion |-> IF "assigned_emotion" \in DOMAIN rows[idx]
                                  THEN rows[idx].assigned_emotion
                                  ELSE IF "emotion" \in DOMAIN rows[idx]
                                  THEN rows[idx].emotion ELSE "general",
                      similarity_score |-> similarities[idx],
                      match_type |-> "similarity_based"]
             IN  Prefix(Map(result, SelectSeq(top_indices, near)), top_k)))

\* default_quotes of _fallback_recommendations
default_quotes == <<
    [text |-> "The only way to do great work is to love what you do.",
     author |-> "Steve Jobs", emotion |-> "motivation", similarity_score |-> 50,
     match_type |-> "fallback"],
    [text |-> "When we are no longer able to change a situation, we are challenged to change ourselves.",
     author |-> "Viktor E. Frankl", emotion |-> "wisdom", similarity_score |-> 50,
     match_type |-> "fallback"] >>

\* Variant of _fallback_recommendations: every default quote, whatever top_k
_fallback_recommendations_all(user_input, top_k) == default_quotes

\* _fallback_recommendations
_fallback_recommendations(user_input, top_k) == Prefix(default_quotes, top_k)

\* get_recommendations of the engine, on the engine state (loaded, vec, clf, df)
get_recommendations(loaded, vec, clf, df, user_input, top_k) ==
    IF ~loaded THEN _fallback_recommendations(user_input, top_k)
    ELSE
    Bind(analyze_sentiment(loaded, clf, user_input), LAMBDA sentiment_analysis :
    LET primary_emotion == sentiment_analysis.primary_emotion
    IN  Bind(_get_emotion_based_quotes(df, primary_emotion, top_k),
             LAMBDA emotion_quotes :
        IF emotion_quotes.raised THEN _fallback_recommendations(user_input, top_k)
        ELSE
        LET extended ==
                IF Len(emotion_quotes.value) < top_k
                THEN emotion_quotes.value \o
                     _get_similarity_quotes(vec, df, user_input,
                                            top_k - Len(emotion_quotes.value))
                ELSE emotion_quotes.value
            annotated(quote) ==
                [text |-> quote.text, author |-> quote.author,
                 emotion |-> quote.emotion,
                 similarity_score |-> quote.similarity_score,
                 match_type |-> quote.match_type,
                 confidence |-> sentiment_analysis.confidence,
                 detected_emotion |-> primary_emotion,
                 emotion_probabilities |-> sentiment_analysis.emotion_probabilities]
        IN  Prefix(Map(annotated, extended), top_k)))

\* ------------------------------------------------------------------ actions

\* TrainedQuoteEngine.__init__ (self.metadata is assigned only by load_models)
Init ==
    /\ vectorizer = NoneObj
    /\ emotion_classifier = NoneObj
    /\ quotes_df = NoneObj
    /\ metadata = Unset
    /\ is_loaded = FALSE
    /\ pc = "constructed"
    /\ out = [op |-> "__init__"]

\* load_models, run once at module import. The three pickles are loaded in order,
\* then metadata.json; an exception anywhere ends the call with False and keeps
\* what was assigned before it. A metadata.json without 'dataset_size' is assigned
\* and then fails the log line that formats the default 'Unknown' with ','.
LoadModels ==
    /\ pc = "constructed"
    /\ \E dir \in ModelDirs :
        LET fv == dir.vectorizer
            fc == dir.emotion_classifier
            fq == dir.quotes_df
            fm == dir.metadata
            failed_at ==
                IF fv = Corrupt THEN 1
                ELSE IF fc = Corrupt THEN 2
                ELSE IF fq = Corrupt THEN 3
                ELSE IF fm = Corrupt THEN 4
                ELSE IF fm = MetadataEmpty THEN 5
                ELSE 6
            vec == IF failed_at > 1 /\ fv # Absent THEN fv ELSE vectorizer
            clf == IF failed_at > 2 /\ fc # Absent THEN fc ELSE emotion_classifier
            df == IF failed_at > 3 /\ fq # Absent THEN fq ELSE quotes_df
            meta == IF failed_at > 4 /\ fm # Absent THEN fm ELSE metadata
            essential == vec # NoneObj /\ clf # NoneObj /\ df # NoneObj
        IN  /\ vectorizer' = vec
            /\ emotion_classifier' = clf
            /\ quotes_df' = df
            /\ metadata' = meta
            /\ is_loaded' = IF failed_at = 6 /\ essential THEN TRUE ELSE is_loaded
            /\ out' = [op |-> "load_models", result |-> (failed_at = 6 /\ essential)]
    /\ pc' = "serving"

\* len(trained_engine.quotes_df) / len(emotion_classifier.classes_), 0 when None
TotalQuotes == IF quotes_df # NoneObj THEN Len(quotes_df.rows) ELSE 0
EmotionClasses ==
    IF emotion_classifier # NoneObj THEN Len(emotion_classifier.classes_) ELSE 0

\* GET /health. The handler has no try: reading the never-assigned
\* trained_engine.metadata raises AttributeError and the framework answers 500.
HealthCheck ==
    /\ pc = "serving"
    /\ out' = IF metadata = Unset
              THEN [op |-> "GET /health", code |-> 500, keys |-> {}]
              ELSE [op |-> "GET /health", code |-> 200,
                    keys |-> {"status", "timestamp", "engine_loaded",
                              "processing_method", "models_available", "dataset_info"},
                    status |-> "healthy",
                    engine_loaded |-> is_loaded,
                    dataset_info |->
                        IF metadata.keys # {}
                        THEN {<<"total_quotes", TotalQuotes>>,
                              <<"emotion_classes", EmotionClasses>>}
                        ELSE {}]
    /\ UNCHANGED <<engine, pc>>

\* The sample size GET /quotes asks for at most
SampleSize == 100

\* The orders DataFrame.sample(n) without random_state may draw n rows in: the
\* process-wide generator is seeded from the system, any order can come out
SampleOrders(n) ==
    {p \in [1..n -> 1..n] : \A i, j \in 1..n : i # j => p[i] # p[j]}

\* Variant of GET /quotes: the length-filtered frame is stored back in the engine
GetQuotesInPlace ==
    /\ pc = "serving"
    /\ quotes_df # NoneObj
    /\ \E filtered_quotes \in {_filter_quotes_by_length(quotes_df)} :
        /\ ~filtered_quotes.raised
        /\ quotes_df' = filtered_quotes.value
        /\ out' = [op |-> "GET /quotes", code |-> 200,
                   keys |-> {"status", "quotes", "total_quotes",
                             "processing_method"},
                   status |-> "success",
                   quotes |-> Map(LAMBDA quote :
                                  [text |-> QuoteText(quote),
                                   author |-> QuoteAuthor(quote),
                                   emotion |-> quote.assigned_emotion],
                                  filtered_quotes.value.rows),
                   total_quotes |-> Len(quotes_df.rows)]
    /\ UNCHANGED <<vectorizer, emotion_classifier, metadata, is_loaded, pc>>

\* GET /quotes
GetQuotes ==
    /\ pc = "serving"
    /\ LET error500 == [op |-> "GET /quotes", code |-> 500,
                        keys |-> {"error", "status"}, status |-> "error"]
           quote_dict(quote) ==
               [text |-> QuoteText(quote),
                author |-> QuoteAuthor(quote),
                emotion |-> IF "assigned_emotion" \in DOMAIN quote
                            THEN quote.assigned_emotion
                            ELSE IF "emotion" \in DOMAIN quote THEN quote.emotion
                            ELSE "general"]
       IN  IF quotes_df = NoneObj THEN out' = error500
           ELSE \E order \in SampleOrders(Len(quotes_df.rows)) :
                \E filtered_quotes \in {_filter_quotes_by_length(
                       [quotes_df EXCEPT !.rows =
                           Map(LAMBDA i : quotes_df.rows[order[i]],
                               Prefix([i \in 1..Len(quotes_df.rows) |-> i],
                                      Min({SampleSize, Len(quotes_df.rows)})))])} :
                out' = IF filtered_quotes.raised THEN error500
                       ELSE [op |-> "GET /quotes", code |-> 200,
                             keys |-> {"status", "quotes", "total_quotes",
                                       "processing_method"},
                             status |-> "success",
                             quotes |-> Map(quote_dict, filtered_quotes.value.rows),
                             total_quotes |-> Len(quotes_df.rows)]
    /\ UNCHANGED <<engine, pc>>

\* GET /emotions
GetEmotions ==
    /\ pc = "serving"
    /\ out' = IF emotion_classifier = NoneObj
              THEN [op |-> "GET /emotions", code |-> 500,
                    keys |-> {"error", "status"}, status |-> "error"]
              ELSE [op |-> "GET /emotions", code |-> 200,
                    keys |-> {"status", "emotions", "emotion_counts",
                              "total_emotions", "processing_method"},
                    status |-> "success",
                    emotions |-> emotion_classifier.classes_,
                    emotion_counts |->
                        IF quotes_df # NoneObj
                           /\ "assigned_emotion" \in quotes_df.columns
                        THEN {<<emotion_classifier.classes_[c],
                                Len(SelectSeq(quotes_df.rows, LAMBDA row :
                                    row.assigned_emotion =
                                        emotion_classifier.classes_[c]))>> :
                                c \in DOMAIN emotion_classifier.classes_}
                        ELSE {},
                    total_emotions |-> Len(emotion_classifier.classes_)]
    /\ UNCHANGED <<engine, pc>>

\* top_k the /recommendations handler passes
RouteTopK == 5

\* The request bodies POST /recommendations receives: no JSON at all, or a JSON
\* object without 'text', with a null 'text' or with a string 'text'
RequestBodies ==
    {[json |-> FALSE]}
    \cup {[json |-> TRUE, has_text |-> FALSE, text |-> None]}
    \cup {[json |-> TRUE, has_text |-> TRUE, text |-> t] :
            t \in RequestTexts \cup {None, "", "  ", " I feel happy "}}

\* POST /recommendations
PostRecommendations ==
    /\ pc = "serving"
    /\ \E body \in RequestBodies :
        LET error500 == [op |-> "POST /recommendations", request |-> body,
                         code |-> 500, keys |-> {"error", "status"},
                         status |-> "error"]
            text == IF ~body.json THEN None
                    ELSE IF body.has_text THEN body.text ELSE ""
        IN  \E user_input \in {Strip(text)} :
            LET sentiment_analysis ==
                    analyze_sentiment(is_loaded, emotion_classifier, user_input)
                recommendations ==
                    get_recommendations(is_loaded, vectorizer, emotion_classifier,
                                        quotes_df, user_input, RouteTopK)
            IN
            out' =
              IF ~body.json THEN error500
              ELSE IF text = None THEN error500
              ELSE IF user_input = ""
              THEN [op |-> "POST /recommendations", request |-> body,
                    code |-> 400, keys |-> {"error", "status"},
                    status |-> "error"]
              ELSE [op |-> "POST /recommendations", request |-> body,
                    code |-> 200,
                    keys |-> {"status", "input_text", "insight", "recommended_quotes",
                              "emotion_detected", "confidence", "emotion_probabilities",
                              "processing_method", "timestamp"},
                    status |-> "success",
                    input_text |-> user_input,
                    recommended_quotes |-> recommendations,
                    emotion_detected |-> sentiment_analysis.primary_emotion,
                    confidence |-> sentiment_analysis.confidence]
    /\ UNCHANGED <<engine, pc>>

\* trained_engine.analyze_sentiment(user_input), called on the engine
AnalyzeSentiment ==
    /\ pc = "serving"
    /\ \E user_input \in RequestTexts :
        out' = [op |-> "analyze_sentiment", user_input |-> user_input,
                result |-> analyze_sentiment(is_loaded, emotion_classifier, user_input)]
    /\ UNCHANGED <<engine, pc>>

\* trained_engine.get_recommendations(user_input, top_k), called on the engine
GetRecommendations ==
    /\ pc = "serving"
    /\ \E user_input \in RequestTexts, top_k \in 0..MaxTopK :
        out' = [op |-> "get_recommendations", user_input |-> user_input,
                top_k |-> top_k,
                result |-> get_recommendations(is_loaded, vectorizer,
                               emotion_classifier, quotes_df, user_input, top_k)]
    /\ UNCHANGED <<engine, pc>>

\* The labels _get_emotion_based_quotes is called with
SelectorEmotions == {"grief", "love", "general", "hope"}

\* trained_engine._get_emotion_based_quotes(emotion, top_k), called on the engine
GetEmotionBasedQuotes ==
    /\ pc = "serving"
    /\ \E emotion \in SelectorEmotions, top_k \in 0..MaxTopK :
        out' = [op |-> "_get_emotion_based_quotes", emotion |-> emotion,
                top_k |-> top_k,
                result |-> _get_emotion_based_quotes(quotes_df, emotion, top_k)]
    /\ UNCHANGED <<engine, pc>>

Next ==
    \/ LoadModels
    \/ HealthCheck
    \/ PostRecommendations
    \/ GetQuotes
    \/ GetEmotions
    \/ AnalyzeSentiment
    \/ GetRecommendations
    \/ GetEmotionBasedQuotes

Spec == Init /\ [][Next]_vars

\* ------------------------------------------- the same call, made a second time

\* trained_engine.get_recommendations(user_input, top_k) called again, with the
\* arguments of the call before it; `first` keeps what that call returned
GetRecommendationsAgain ==
    /\ pc = "serving"
    /\ out.op = "get_recommendations"
    /\ out' = [op |-> "get_recommendations again", user_input |-> out.user_input,
               top_k |-> out.top_k,
               first |-> out.result,
               result |-> get_recommendations(is_loaded, vectorizer,
                              emotion_classifier, quotes_df, out.user_input,
                              out.top_k)]
    /\ UNCHANGED <<engine, pc>>

RepeatNext ==
    \/ LoadModels
    \/ GetRecommendations
    \/ GetRecommendationsAgain

SpecRepeat == Init /\ [][RepeatNext]_vars

\* ------------------------------------------------ the two length thresholds

\* The longest quote the length filters are applied to, in words
MaxQuoteWords == 66

\* A text of n words separated by sep
RECURSIVE WordsText(_, _)
WordsText(n, sep) ==
    IF n = 0 THEN ""
    ELSE IF n = 1 THEN "so"
    ELSE WordsText(n - 1, sep) \o sep \o (IF n % 2 = 0 THEN "it" ELSE "goes")

\* word_count of the archive merge
merge_word_count(text) == IF text \in {NaN, None} THEN 0 ELSE SplitLen(text)

\* The word limit of the archive merge
MergeMaxWords == 65

\* all_quotes[all_quotes['quote'].apply(word_count) <= 65]
LengthFilter(rows) ==
    SelectSeq(rows, LAMBDA row : merge_word_count(row.quote) <= MergeMaxWords)

\* A quote of a known number of words, the words separated and the text padded
\* by whitespace, or a missing quote (no words)
LengthInit ==
    /\ vectorizer = NoneObj
    /\ emotion_classifier = NoneObj
    /\ quotes_df = NoneObj
    /\ metadata = Unset
    /\ is_loaded = FALSE
    /\ pc = "quote"
    /\ \/ \E n \in 0..MaxQuoteWords, sep \in {" ", "  ", "\n"}, pad \in {"", " ", "\t"} :
             out = [op |-> "quote", words |-> n,
                    quote |-> pad \o WordsText(n, sep) \o pad]
       \/ out = [op |-> "quote", words |-> 0, quote |-> NaN]

\* _filter_quotes_by_length on a frame of emotion quotes holding the quote
FilterQuotesByLength ==
    /\ pc = "quote"
    /\ out.op = "quote"
    /\ out' = [op |-> "_filter_quotes_by_length", words |-> out.words,
               quote |-> out.quote,
               result |-> _filter_quotes_by_length(
                   [columns |-> {"quote", "author", "category", "assigned_emotion"},
                    rows |-> << [quote |-> out.quote, author |-> "Unknown",
                                 category |-> "general",
                                 assigned_emotion |-> "wisdom"] >>])]
    /\ UNCHANGED <<engine, pc>>

\* The length filter of the archive merge on a merged frame holding the quote
FilterMergedByLength ==
    /\ pc = "quote"
    /\ out.op = "quote"
    /\ out' = [op |-> "length filter", words |-> out.words, quote |-> out.quote,
               result |-> LengthFilter(<< [quote |-> out.quote, author |-> "Unknown",
                                           tags |-> ""] >>)]
    /\ UNCHANGED <<engine, pc>>

LengthNext ==
    \/ FilterQuotesByLength
    \/ FilterMergedByLength

SpecLength == LengthInit /\ [][LengthNext]_vars

\* ------------------------------------------------- the corpus filtered by label

\* The labels the corpus is filtered by: every label stored in it, as stored and
\* lowercased, and the labels requests are classified as
FilterEmotions(df) ==
    LET stored(row) == IF "assigned_emotion" \in df.columns
                       THEN row.assigned_emotion ELSE row.emotion
    IN  {stored(df.rows[i]) : i \in DOMAIN df.rows}
        \cup {Lower(stored(df.rows[i])) : i \in DOMAIN df.rows}
        \cup SelectorEmotions

\* quotes_df[quotes_df[label column].str.lower() == emotion.lower()], the first
\* step of _get_emotion_based_quotes
FilterByEmotion ==
    /\ pc = "serving"
    /\ quotes_df # NoneObj
    /\ \E emotion \in FilterEmotions(quotes_df) :
        out' = [op |-> "emotion_quotes", emotion |-> emotion,
                result |-> EmotionQuotes(quotes_df, emotion).rows]
    /\ UNCHANGED <<engine, pc>>

\* quotes_df[quotes_df['assigned_emotion'] == predicted_emotion] of
\* load_and_test_simple_training, on the artifacts of the simple training
TestFilterByEmotion ==
    /\ pc = "serving"
    /\ quotes_df # NoneObj
    /\ emotion_classifier # NoneObj
    /\ "assigned_emotion" \in quotes_df.columns
    /\ \E test_input \in RequestTexts :
        LET predicted_emotion == Predict(emotion_classifier, test_input)
        IN  /\ ~predicted_emotion.raised
            /\ out' = [op |-> "test emotion_quotes",
                       emotion |-> predicted_emotion.value,
                       result |-> SelectSeq(quotes_df.rows, LAMBDA row :
                           row.assigned_emotion = predicted_emotion.value)]
    /\ UNCHANGED <<engine, pc>>

FilterNext ==
    \/ LoadModels
    \/ FilterByEmotion
    \/ TestFilterByEmotion

SpecFilter == Init /\ [][FilterNext]_vars

\* ------------------------------------------------- building the corpus: frames

\* pd.read_csv(path): the frame of a CSV file (its header and its rows)
ReadCsv(file) == [columns |-> Range(file.header), rows |-> file.rows]

\* df[cols]
SelectColumns(df, cols) ==
    [columns |-> cols,
     rows |-> Map(LAMBDA row : [c \in cols |-> row[c]], df.rows)]

\* df.rename(columns={old: new}); a column that is not there is left alone
Rename(df, old, new) ==
    IF old \notin df.columns THEN df
    ELSE [columns |-> (df.columns \ {old}) \cup {new},
          rows |-> Map(LAMBDA row : [c \in (df.columns \ {old}) \cup {new} |->
                                        IF c = new THEN row[old] ELSE row[c]],
                       df.rows)]

\* df[col] = value
WithColumn(df, col, value) ==
    [columns |-> df.columns \cup {col},
     rows |-> Map(LAMBDA row : [c \in df.columns \cup {col} |->
                                   IF c = col THEN value ELSE row[c]],
                  df.rows)]

\* df.drop(columns=[col])
DropColumn(df, col) == SelectColumns(df, df.columns \ {col})

\* df.dropna(subset=[col]) on the rows
DropNa(rows, col) == SelectSeq(rows, LAMBDA row : row[col] # NaN)

\* df[col] = df[col].fillna(value) on the rows
FillNaColumn(rows, col, value) ==
    Map(LAMBDA row : [row EXCEPT ![col] = FillNa(row[col], value)], rows)

\* Variant of drop_duplicates: the first occurrences, collected newest first
DropDuplicatesNewestFirst(rows, col) ==
    LET first(i) == \A j \in 1..(i - 1) : rows[j][col] # rows[i][col]
        kept == {i \in 1..Len(rows) : first(i)}
        RECURSIVE from(_)
        from(i) == IF i > Len(rows) THEN <<>>
                   ELSE from(i + 1) \o (IF i \in kept THEN <<rows[i]>> ELSE <<>>)
    IN  from(1)

\* Variant of drop_duplicates: keep='last'
DropDuplicatesLast(rows, col) ==
    LET last(i) == \A j \in (i + 1)..Len(rows) : rows[j][col] # rows[i][col]
        kept == {i \in 1..Len(rows) : last(i)}
        RECURSIVE from(_)
        from(i) == IF i > Len(rows) THEN <<>>
                   ELSE (IF i \in kept THEN <<rows[i]>> ELSE <<>>) \o from(i + 1)
    IN  from(1)

\* df.drop_duplicates(subset=[col]) on the rows: of the rows with the same value
\* of col the first is kept, the order of the kept rows is unchanged
DropDuplicates(rows, col) ==
    LET first(i) == \A j \in 1..(i - 1) : rows[j][col] # rows[i][col]
        kept == {i \in 1..Len(rows) : first(i)}
        RECURSIVE from(_)
        from(i) == IF i > Len(rows) THEN <<>>
                   ELSE (IF i \in kept THEN <<rows[i]>> ELSE <<>>) \o from(i + 1)
    IN  from(1)

\* ------------------------------------------- building the corpus: the archive

\* The most data rows of a source file
MaxFileRows == 1

\* The sequences of at most n members of the sequence pool
RECURSIVE SeqsOf(_, _)
SeqsOf(pool, n) ==
    IF n = 0 THEN {<<>>}
    ELSE LET shorter == SeqsOf(pool, n - 1)
         IN  shorter \cup {Append(s, pool[i]) : s \in shorter, i \in DOMAIN pool}

\* files of merge_all_archive_quotes
files == <<"quotes.csv", "stoic_quotes_full.csv", "lessreal-data.csv",
           "Scraping_done.csv">>

\* A quote of 66 words
ArchiveLongQuote == "Grief " \o WordsText(65, " ")

\* What quotes.csv may be: missing, its three columns with some rows (one quote
\* is blank), or a file without the category column
QuotesFiles ==
    {Absent}
    \cup {[header |-> <<"quote", "author", "category">>, rows |-> r] :
            r \in SeqsOf(<< [quote |-> "Stay curious", author |-> "Cy",
                             category |-> "life"],
                            [quote |-> "  ", author |-> "Bo",
                             category |-> "hope"] >>, MaxFileRows)}
    \cup {[header |-> <<"quote", "author">>,
           rows |-> << [quote |-> "Love heals", author |-> "Ann"] >>]}

\* What stoic_quotes_full.csv may be: missing, its three columns with some rows
\* (one repeats a quote of quotes.csv, one has no quote), a file without Tags, or
\* a file whose quote column has another name
StoicFiles ==
    {Absent}
    \cup {[header |-> <<"Quote", "Author", "Tags">>, rows |-> r] :
            r \in SeqsOf(<< [Quote |-> "Stay curious", Author |-> "Seneca",
                             Tags |-> "Love"],
                            [Quote |-> NaN, Author |-> "Epictetus",
                             Tags |-> "wisdom"] >>, MaxFileRows)}
    \cup {[header |-> <<"Quote", "Author">>,
           rows |-> << [Quote |-> "Love heals", Author |-> "Seneca"] >>],
          [header |-> <<"Text", "Author", "Tags">>,
           rows |-> << [Text |-> "Love heals", Author |-> "Seneca",
                        Tags |-> "stoic"] >>]}

\* What lessreal-data.csv may be: missing, its four columns with some rows (one
\* quote of 66 words), or a file without the Character column
LessrealFiles ==
    {Absent}
    \cup {[header |-> <<"ID", "Anime", "Character", "Quote">>, rows |-> r] :
            r \in SeqsOf(<< [ID |-> "1", Anime |-> "Naruto", Character |-> "Gaara",
                             Quote |-> "Pain is alone"],
                            [ID |-> "2", Anime |-> "Bleach", Character |-> "Ichigo",
                             Quote |-> ArchiveLongQuote] >>, MaxFileRows)}
    \cup {[header |-> <<"ID", "Anime", "Quote">>,
           rows |-> << [ID |-> "1", Anime |-> "Naruto",
                        Quote |-> "Pain is alone"] >>]}

\* What Scraping_done.csv may be: missing, the scraper's columns with some rows,
\* Quote/Author columns, a file without authors, or a file with neither quotes
\* nor Quote
ScrapingFiles ==
    {Absent}
    \cup {[header |-> <<"Unnamed: 0", "quotes", "authors">>, rows |-> r] :
            r \in SeqsOf(<< ("Unnamed: 0" :> "0") @@
                            [quotes |-> "Love heals", authors |-> "Di"],
                            ("Unnamed: 0" :> "1") @@
                            [quotes |-> "Pain is alone", authors |-> NaN] >>,
                         MaxFileRows)}
    \cup {[header |-> <<"Quote", "Author">>,
           rows |-> << [Quote |-> "Sad and alone", Author |-> "Flo"] >>],
          [header |-> <<"quotes">>,
           rows |-> << [quotes |-> "Love heals"] >>],
          [header |-> <<"text", "by">>,
           rows |-> << [text |-> "Love heals", by |-> "Di"] >>]}

\* The archive directories the merge runs on
ArchiveDirs ==
    {(files[1] :> q) @@ (files[2] :> s) @@ (files[3] :> l) @@ (files[4] :> c) :
        q \in QuotesFiles, s \in StoicFiles, l \in LessrealFiles,
        c \in ScrapingFiles}

\* What the loop body of the merge does with a source: its frame is appended,
\* the source is skipped with a log line, or an exception ends the script
Appended(fname, df) ==
    [status |-> "ok", log |-> "[OK] Loaded quotes from " \o fname, rows |-> df.rows]
Skipped(line) == [status |-> "skip", log |-> line, rows |-> <<>>]
Aborted == [status |-> "raised", log |-> "", rows |-> <<>>]

\* The end of the loop body: rows without a quote are dropped (KeyError when
\* there is no quote column), then the three columns are required
AppendSource(fname, df) ==
    IF "quote" \notin df.columns THEN Aborted
    ELSE Bind([df EXCEPT !.rows = DropNa(df.rows, "quote")], LAMBDA d :
         IF ~({"quote", "author", "tags"} \subseteq d.columns)
         THEN Skipped("[SKIP] After processing, missing columns in " \o fname)
         ELSE IF d.rows # <<>>
         THEN Appended(fname, SelectColumns(d, {"quote", "author", "tags"}))
         ELSE Skipped("[SKIP] No data in " \o fname))

\* The loop body of the merge for the source fname
LoadSource(fname, file) ==
    IF file = Absent THEN Skipped("[SKIP] File not found: " \o fname)
    ELSE CASE fname = "quotes.csv" ->
                \* read_csv(usecols=...) raises when a column is not in the file
                IF ~({"quote", "author", "category"} \subseteq Range(file.header))
                THEN Aborted
                ELSE AppendSource(fname,
                        Rename(SelectColumns(ReadCsv(file),
                                   {"quote", "author", "category"}),
                               "category", "tags"))
           [] fname = "stoic_quotes_full.csv" ->
                AppendSource(fname,
                    Rename(Rename(Rename(ReadCsv(file), "Quote", "quote"),
                                  "Author", "author"), "Tags", "tags"))
           [] fname = "lessreal-data.csv" ->
                IF {"Character", "Quote"} \subseteq Range(file.header)
                THEN AppendSource(fname,
                        WithColumn(
                            Rename(Rename(SelectColumns(ReadCsv(file),
                                              {"Character", "Quote"}),
                                          "Character", "author"), "Quote", "quote"),
                            "tags", ""))
                ELSE Skipped("[SKIP] Missing columns in " \o fname)
           [] fname = "Scraping_done.csv" ->
                LET df == ReadCsv(file)
                    renamed ==
                        IF "quotes" \in df.columns
                        THEN LET r == Rename(Rename(df, "quotes", "quote"),
                                             "authors", "author")
                             IN  IF "Unnamed: 0" \in r.columns
                                 THEN DropColumn(r, "Unnamed: 0") ELSE r
                        ELSE IF "Quote" \in df.columns
                        THEN Rename(Rename(df, "Quote", "quote"), "Author", "author")
                        ELSE df
                IN  AppendSource(fname,
                        IF "tags" \notin renamed.columns
                        THEN WithColumn(renamed, "tags", "") ELSE renamed)

\* The loop over files from the i-th on: the frames appended to dfs (their rows,
\* in file order) and the log lines, or raised when a source ends the script
RECURSIVE LoadFrom(_, _)
LoadFrom(i, dir) ==
    IF i > Len(files) THEN [raised |-> FALSE, rows |-> <<>>, log |-> <<>>]
    ELSE Bind(LoadSource(files[i], dir[files[i]]), LAMBDA loaded :
         IF loaded.status = "raised"
         THEN [raised |-> TRUE, rows |-> <<>>, log |-> <<>>]
         ELSE Bind(LoadFrom(i + 1, dir), LAMBDA rest :
              [raised |-> rest.raised,
               rows |-> loaded.rows \o rest.rows,
               log |-> <<loaded.log>> \o rest.log]))

\* all_quotes['emotion'] = all_quotes.apply(assign_emotion(quote, tags))
LabelMerged(rows) ==
    Map(LAMBDA row : [quote |-> row.quote, author |-> row.author,
                      tags |-> row.tags,
                      emotion |-> assign_emotion(row.quote, row.tags)], rows)

\* An archive directory, before a merge script runs on it
ArchiveInit ==
    /\ vectorizer = NoneObj
    /\ emotion_classifier = NoneObj
    /\ quotes_df = NoneObj
    /\ metadata = Unset
    /\ is_loaded = FALSE
    /\ pc = "archive"
    /\ \E dir \in ArchiveDirs : out = [op |-> "archive", dir |-> dir]

\* The script merge_all_archive_quotes, from the loop over the sources to
\* to_csv: `source` is the concatenated frame, `corpus` the rows written
MergeAllArchiveQuotes ==
    /\ pc = "archive"
    /\ \E loaded \in {LoadFrom(1, out.dir)} :
        out' = IF loaded.raised
               THEN [op |-> "merge_all_archive_quotes", dir |-> out.dir,
                     status |-> "raised", log |-> loaded.log,
                     source |-> <<>>, corpus |-> <<>>]
               ELSE IF loaded.rows = <<>>
               THEN [op |-> "merge_all_archive_quotes", dir |-> out.dir,
                     status |-> "exit", log |-> loaded.log,
                     source |-> <<>>, corpus |-> <<>>]
               ELSE [op |-> "merge_all_archive_quotes", dir |-> out.dir,
                     status |-> "saved", log |-> loaded.log,
                     source |-> loaded.rows,
                     corpus |-> LabelMerged(LengthFilter(
                                    DropDuplicates(loaded.rows, "quote")))]
    /\ pc' = "merged all"
    /\ UNCHANGED engine

\* The script merge_and_label_quotes on the same two sources: there is no check
\* of the files, lessreal-data.csv is read by column position, every row is
\* labelled before the frames are concatenated and de-duplicated
MergeAndLabelQuotes ==
    /\ pc = "archive"
    /\ LET lessreal_file == out.dir["lessreal-data.csv"]
           stoic_file == out.dir["stoic_quotes_full.csv"]
           failed == [op |-> "merge_and_label_quotes", dir |-> out.dir,
                      status |-> "raised", log |-> <<>>,
                      source |-> <<>>, corpus |-> <<>>]
       IN  IF lessreal_file = Absent \/ stoic_file = Absent THEN out' = failed
           ELSE IF Len(lessreal_file.header) < 4 THEN out' = failed
           ELSE
           \E stoic \in {Rename(Rename(Rename(ReadCsv(stoic_file), "Quote", "quote"),
                                       "Author", "author"), "Tags", "tags")} :
           IF ~({"quote", "author"} \subseteq stoic.columns) THEN out' = failed
           ELSE
           LET lessreal ==
                   Map(LAMBDA row : [quote |-> row[lessreal_file.header[4]],
                                     author |-> row[lessreal_file.header[3]]],
                       lessreal_file.rows)
               label_lessreal(row) ==
                   [quote |-> row.quote, author |-> row.author,
                    emotion |-> assign_emotion(row.quote, None)]
               label_stoic(row) ==
                   [quote |-> row.quote, author |-> row.author,
                    emotion |-> assign_emotion(row.quote,
                                   IF "tags" \in stoic.columns THEN row.tags ELSE "")]
           IN  \E df \in {Map(label_lessreal, DropNa(lessreal, "quote"))
                          \o Map(label_stoic, DropNa(stoic.rows, "quote"))} :
               out' = [op |-> "merge_and_label_quotes", dir |-> out.dir,
                       status |-> "saved", log |-> <<>>,
                       source |-> df,
                       corpus |-> DropDuplicates(df, "quote")]
    /\ pc' = "merged and labelled"
    /\ UNCHANGED engine

\* ------------------------------------------ building the corpus: the training

\* The most rows of the training dataset
MaxDatasetRows == 2

\* The rows of quotes_problem_solution.csv: a quote no keyword occurs in under a
\* category of its own, the same quote again, a row without quote and category,
\* a row without author, and a category in capitals
DatasetPool == <<
    [quote |-> "Stay curious", author |-> "Cy", category |-> "Stoicism"],
    [quote |-> "Stay curious", author |-> "Di", category |-> "love"],
    [quote |-> NaN, author |-> "Ed", category |-> NaN],
    [quote |-> "Pain is alone", author |-> NaN, category |-> "general"],
    [quote |-> "Love heals", author |-> "Flo", category |-> "Love"] >>

\* The dataset files the training passes read: the three columns with some
\* rows, or a file without the category column
Datasets ==
    {[header |-> <<"quote", "author", "category">>, rows |-> r] :
        r \in SeqsOf(DatasetPool, MaxDatasetRows)}
    \cup {[header |-> <<"quote", "author">>,
           rows |-> << [quote |-> "Love heals", author |-> "Flo"] >>]}

\* The dataset, before a training pass runs on it
DatasetInit ==
    /\ vectorizer = NoneObj
    /\ emotion_classifier = NoneObj
    /\ quotes_df = NoneObj
    /\ metadata = Unset
    /\ is_loaded = FALSE
    /\ pc = "dataset"
    /\ \E dataset \in Datasets : out = [op |-> "dataset", dataset |-> dataset]

\* The three fillna lines of both training passes
CleanRows(rows) ==
    FillNaColumn(FillNaColumn(FillNaColumn(rows, "quote", ""), "author", "Unknown"),
                 "category", "general")

\* train_simple_system up to the saving of quotes_df.pkl (an exception is caught
\* and the function returns False): `source` is the cleaned frame, `corpus` the
\* frame pickled with its assigned_emotion column
TrainSimpleSystem ==
    /\ pc = "dataset"
    /\ LET df == ReadCsv(out.dataset)
       IN  IF ~({"quote", "author", "category"} \subseteq df.columns)
           THEN out' = [op |-> "train_simple_system", dataset |-> out.dataset,
                        status |-> "failed", source |-> <<>>, corpus |-> <<>>]
           ELSE \E cleaned \in {CleanRows(df.rows)} :
                out' = [op |-> "train_simple_system", dataset |-> out.dataset,
                        status |-> "saved",
                        source |-> cleaned,
                        corpus |-> Map(LAMBDA row :
                            [quote |-> row.quote, author |-> row.author,
                             category |-> row.category,
                             assigned_emotion |-> assigned_emotion_of(row.quote)],
                            DropDuplicates(cleaned, "quote"))]
    /\ pc' = "trained"
    /\ UNCHANGED engine

\* QuoteSystemTrainer.load_dataset with _clean_dataset (an exception is caught and
\* the method returns False): `source` is the renamed frame, `corpus` quotes_df
LoadDataset ==
    /\ pc = "dataset"
    /\ LET df == ReadCsv(out.dataset)
       IN  IF ~({"quote", "author", "category"} \subseteq df.columns)
           THEN out' = [op |-> "load_dataset", dataset |-> out.dataset,
                        status |-> "failed", source |-> <<>>, corpus |-> <<>>]
           ELSE \E renamed \in {Map(LAMBDA row :
                                    [text |-> row.quote, author |-> row.author,
                                     emotion |-> row.category],
                                    CleanRows(df.rows))} :
                out' = [op |-> "load_dataset", dataset |-> out.dataset,
                        status |-> "loaded",
                        source |-> renamed,
                        corpus |-> DropDuplicates(renamed, "text")]
    /\ pc' = "cleaned"
    /\ UNCHANGED engine

\* The label create_training_data gives a row of quotes_df: the first emotion of
\* emotion_keywords with a keyword in the lowercased text; when none matches, the
\* row's own lowercased emotion unless that is 'general', then 'wisdom'
training_emotion(quote) ==
    LET quote_emotion == Lower(quote.emotion)
        matched_emotions == MatchedFrom(1, Lower(quote.text))
    IN  IF matched_emotions # <<>> THEN matched_emotions[1]
        ELSE IF quote_emotion # "general" THEN quote_emotion ELSE "wisdom"

\* QuoteSystemTrainer.create_training_data, after load_dataset
CreateTrainingData ==
    /\ pc = "cleaned"
    /\ out.status = "loaded"
    /\ out' = [op |-> "create_training_data", dataset |-> out.dataset,
               status |-> "saved", source |-> out.source, corpus |-> out.corpus,
               training_data |-> Map(LAMBDA quote :
                   [text |-> quote.text,
                    emotion |-> training_emotion(quote),
                    author |-> quote.author,
                    original_emotion |-> Lower(quote.emotion)],
                   out.corpus)]
    /\ pc' = "trained"
    /\ UNCHANGED engine

CorpusInit == ArchiveInit \/ DatasetInit

CorpusNext ==
    \/ MergeAllArchiveQuotes
    \/ MergeAndLabelQuotes
    \/ TrainSimpleSystem
    \/ LoadDataset
    \/ CreateTrainingData

SpecCorpus == CorpusInit /\ [][CorpusNext]_vars

\* ------------------------------------------------- de-duplication on its own

\* The most rows of a frame drop_duplicates is applied to
MaxFrameRows == 3

\* A frame of dataset rows, before drop_duplicates
DedupInit ==
    /\ vectorizer = NoneObj
    /\ emotion_classifier = NoneObj
    /\ quotes_df = NoneObj
    /\ metadata = Unset
    /\ is_loaded = FALSE
    /\ pc = "frame"
    /\ \E rows \in SeqsOf(DatasetPool, MaxFrameRows) :
           out = [op |-> "frame", rows |-> rows]

\* drop_duplicates(subset=['quote']) on the frame
DropDuplicatesOnce ==
    /\ pc = "frame"
    /\ out.op = "frame"
    /\ out' = [op |-> "drop_duplicates", frame |-> out.rows, rows |-> out.rows,
               result |-> DropDuplicates(out.rows, "quote")]
    /\ UNCHANGED <<engine, pc>>

\* drop_duplicates(subset=['quote']) on what drop_duplicates returned
DropDuplicatesAgain ==
    /\ pc = "frame"
    /\ out.op = "drop_duplicates"
    /\ out' = [op |-> "drop_duplicates again", frame |-> out.frame,
               rows |-> out.result,
               result |-> DropDuplicates(out.result, "quote")]
    /\ UNCHANGED <<engine, pc>>

DedupNext ==
    \/ DropDuplicatesOnce
    \/ DropDuplicatesAgain

SpecDedup == DedupInit /\ [][DedupNext]_vars

\* --------------------------------------- requests handled at the same time

\* The most requests in flight at once
MaxRequests == 2

RequestIds == 1..MaxRequests

\* The models directories of the concurrent runs: every artifact there with a
\* corpus in the simple layout or in the trainer layout, and an empty directory
ConcurrentDirs ==
    [vectorizer : Vectorizers,
     emotion_classifier : {CHOOSE c \in Classifiers : c.kind = "fitted"},
     quotes_df : {SimpleFrame(Pick({1, 3, 5}, 1)), TrainerFrame(Pick({1, 2}, 1))},
     metadata : {MetadataFull}]
    \cup
    [vectorizer : {Absent}, emotion_classifier : {Absent}, quotes_df : {Absent},
     metadata : {Absent}]

\* The texts the concurrent requests carry
ConcurrentTexts == {"My mother died", "I feel happy", " Stay curious ", "  "}

\* The server after module import (load_models has run on the directory), no
\* request received yet
ConcurrentInit ==
    \E dir \in ConcurrentDirs :
        /\ vectorizer = IF dir.vectorizer = Absent THEN NoneObj ELSE dir.vectorizer
        /\ emotion_classifier = IF dir.emotion_classifier = Absent THEN NoneObj
                                ELSE dir.emotion_classifier
        /\ quotes_df = IF dir.quotes_df = Absent THEN NoneObj ELSE dir.quotes_df
        /\ metadata = IF dir.metadata = Absent THEN Unset ELSE dir.metadata
        /\ is_loaded = (/\ dir.vectorizer # Absent
                        /\ dir.emotion_classifier # Absent
                        /\ dir.quotes_df # Absent)
        /\ pc = "serving"
        /\ out = [op |-> "requests",
                  requests |-> [id \in RequestIds |-> [at |-> "idle"]]]

\* The handler of POST /recommendations up to the validation of the text: the
\* request is answered 400 when the stripped text is empty
ReceiveRequest ==
    /\ pc = "serving"
    /\ \E id \in RequestIds, text \in ConcurrentTexts :
        /\ out.requests[id].at = "idle"
        /\ \E user_input \in {Strip(text)} :
            out' = [out EXCEPT !.requests[id] =
                       IF user_input = ""
                       THEN [at |-> "responded", user_input |-> user_input,
                             code |-> 400]
                       ELSE [at |-> "received", user_input |-> user_input]]
    /\ UNCHANGED <<engine, pc>>

\* sentiment_analysis = trained_engine.analyze_sentiment(user_input)
AnalyzeRequest ==
    /\ pc = "serving"
    /\ \E id \in RequestIds :
        /\ out.requests[id].at = "received"
        /\ out' = [out EXCEPT !.requests[id] =
                      [at |-> "analysed",
                       user_input |-> out.requests[id].user_input,
                       sentiment_analysis |->
                           analyze_sentiment(is_loaded, emotion_classifier,
                                             out.requests[id].user_input)]]
    /\ UNCHANGED <<engine, pc>>

\* Variant of the recommendation step: the text is taken from a slot shared by
\* the requests, which another request in flight has overwritten
RecommendRequestShared ==
    /\ pc = "serving"
    /\ \E id \in RequestIds :
        /\ out.requests[id].at = "analysed"
        /\ LET others == {o \in RequestIds \ {id} :
                             out.requests[o].at \in {"received", "analysed",
                                                     "recommended"}}
           IN  \E from \in (IF others = {} THEN {id} ELSE others) :
               out' = [out EXCEPT !.requests[id] =
                          [at |-> "recommended",
                           user_input |-> out.requests[id].user_input,
                           sentiment_analysis |->
                               out.requests[id].sentiment_analysis,
                           recommendations |->
                               get_recommendations(is_loaded, vectorizer,
                                   emotion_classifier, quotes_df,
                                   out.requests[from].user_input, RouteTopK)]]
    /\ UNCHANGED <<engine, pc>>

\* recommendations = trained_engine.get_recommendations(user_input, 5)
RecommendRequest ==
    /\ pc = "serving"
    /\ \E id \in RequestIds :
        /\ out.requests[id].at = "analysed"
        /\ out' = [out EXCEPT !.requests[id] =
                      [at |-> "recommended",
                       user_input |-> out.requests[id].user_input,
                       sentiment_analysis |-> out.requests[id].sentiment_analysis,
                       recommendations |->
                           get_recommendations(is_loaded, vectorizer,
                               emotion_classifier, quotes_df,
                               out.requests[id].user_input, RouteTopK)]]
    /\ UNCHANGED <<engine, pc>>

\* The response of the handler, built from the request's own locals
RespondRequest ==
    /\ pc = "serving"
    /\ \E id \in RequestIds :
        /\ out.requests[id].at = "recommended"
        /\ out' = [out EXCEPT !.requests[id] =
                      [at |-> "responded",
                       user_input |-> out.requests[id].user_input,
                       code |-> 200,
                       recommended_quotes |-> out.requests[id].recommendations,
                       emotion_detected |->
                           out.requests[id].sentiment_analysis.primary_emotion,
                       confidence |->
                           out.requests[id].sentiment_analysis.confidence]]
    /\ UNCHANGED <<engine, pc>>

ConcurrentNext ==
    \/ ReceiveRequest
    \/ AnalyzeRequest
    \/ RecommendRequest
    \/ RespondRequest

SpecConcurrent == ConcurrentInit /\ [][ConcurrentNext]_vars

\* ------------------------------------------------- the scenario of a worry

\* The clauses of the scenario input
ScenarioClauses == <<"I can't stop worrying", "my heart is racing", "I'm so anxious">>

\* The scenario input
ScenarioText == "I can't stop worrying, my heart is racing, I'm so anxious"

\* The clauses order[1], order[2], ... joined by ", "
RECURSIVE JoinClauses(_)
JoinClauses(order) ==
    IF Len(order) = 1 THEN ScenarioClauses[order[1]]
    ELSE ScenarioClauses[order[1]] \o ", " \o JoinClauses(Tail(order))

\* The inputs made of the scenario's clauses: every selection, in every order
ScenarioTexts ==
    {JoinClauses(order) :
        order \in {s \in UNION {[1..n -> DOMAIN ScenarioClauses] :
                                   n \in DOMAIN ScenarioClauses} :
                      \A i, j \in DOMAIN s : s[i] = s[j] => i = j}}

\* The tags given with an input: none (None, NaN), or a string
ScenarioTags == {None, NaN, "", "Love", "stoic"}

\* An input, before it is classified
ScenarioInit ==
    /\ vectorizer = NoneObj
    /\ emotion_classifier = NoneObj
    /\ quotes_df = NoneObj
    /\ metadata = Unset
    /\ is_loaded = FALSE
    /\ pc = "scenario"
    /\ \E text \in ScenarioTexts, tags \in ScenarioTags :
           out = [op |-> "input", text |-> text, tags |-> tags]

\* assign_emotion(text, tags)
ClassifyScenario ==
    /\ pc = "scenario"
    /\ out.op = "input"
    /\ out' = [op |-> "assign_emotion", text |-> out.text, tags |-> out.tags,
               emotion |-> assign_emotion(out.text, out.tags)]
    /\ UNCHANGED <<engine, pc>>

\* _fallback_sentiment_analysis(text)
FallbackScenario ==
    /\ pc = "scenario"
    /\ out.op = "input"
    /\ out' = [op |-> "_fallback_sentiment_analysis", text |-> out.text,
               tags |-> out.tags,
               emotion |-> _fallback_sentiment_analysis(out.text).primary_emotion]
    /\ UNCHANGED <<engine, pc>>

ScenarioNext ==
    \/ ClassifyScenario
    \/ FallbackScenario

SpecScenario == ScenarioInit /\ [][ScenarioNext]_vars

\* ------------------------------------------------- the labelling of one row

\* The words the labelled quotes are made of: keywords of several emotions (one
\* shared by two of them, one in capitals, one inside a longer word) and a word
\* that is no keyword
ClassifyWords == <<"Pain", "sad", "HOPE", "heartless", "joy", "tree">>

\* The texts of at most n words
RECURSIVE TextsOf(_)
TextsOf(n) ==
    IF n = 0 THEN {""}
    ELSE LET shorter == TextsOf(n - 1)
         IN  shorter \cup {IF t = "" THEN w ELSE t \o " " \o w :
                             t \in shorter, w \in Range(ClassifyWords)}

\* The quote and the tags of a row: a string, or missing (None, NaN)
ClassifyTexts == TextsOf(MaxWords) \cup {None, NaN}
ClassifyTags == {None, NaN, "", "Love", "stoic"}

\* A row of the merged frame, before the emotion column is assigned
ClassifyInit ==
    /\ vectorizer = NoneObj
    /\ emotion_classifier = NoneObj
    /\ quotes_df = NoneObj
    /\ metadata = Unset
    /\ is_loaded = FALSE
    /\ pc = "merged"
    /\ \E text \in ClassifyTexts, tags \in ClassifyTags :
           out = [op |-> "row", text |-> text, tags |-> tags]

\* assign_emotion(row['quote'], row['tags']), as the merge scripts apply it
AssignEmotion ==
    /\ pc = "merged"
    /\ out.op = "row"
    /\ out' = [op |-> "assign_emotion", text |-> out.text, tags |-> out.tags,
               result |-> assign_emotion(out.text, out.tags)]
    /\ UNCHANGED <<engine, pc>>

ClassifyNext == AssignEmotion

SpecClassify == ClassifyInit /\ [][ClassifyNext]_vars

\* ------------------------------------------------------------------ claims

\* A text or tags value as the claims read it: a missing one holds no keyword
StringOf(v) == IF v \in {None, NaN} THEN "" ELSE v

\* The taxonomy entries with a keyword occurring in the lowercased text or tags
EntriesPresent(text, tags) ==
    {i \in 1..Len(EMOTION_KEYWORDS) :
        \E k \in 1..Len(EMOTION_KEYWORDS[i].keywords) :
            \/ Contains(Lower(StringOf(text)), EMOTION_KEYWORDS[i].keywords[k])
            \/ Contains(Lower(StringOf(tags)), EMOTION_KEYWORDS[i].keywords[k])}

\* C1: whenever some taxonomy entry has a keyword occurring in the lowercased
\* text or in the lowercased tags, assign_emotion returns the label of the
\* earliest such entry in declaration order (so the earlier of two emotions
\* wins, and a single emotion present is the one returned).
C1_EarliestEmotionWins ==
    out.op = "assign_emotion" =>
        LET present == EntriesPresent(out.text, out.tags)
        IN  present # {} => out.result = EMOTION_KEYWORDS[Min(present)].label

\* C1, its case: keywords of two emotions, one in the text and a later-declared
\* one in the tags, and the earlier label returned
C1_Witness ==
    /\ out.op = "assign_emotion"
    /\ out.text = "tree HOPE"
    /\ out.tags = "Love"
    /\ EntriesPresent(out.text, out.tags) = {8, 10}
    /\ out.result = "love"

\* C2: when no keyword of any taxonomy entry occurs in the text or the tags,
\* assign_emotion returns 'general'.
C2_NoKeywordIsGeneral ==
    (out.op = "assign_emotion" /\ EntriesPresent(out.text, out.tags) = {})
        => out.result = "general"

\* C2, its case: a text and tags without a keyword, labelled 'general'
C2_Witness ==
    /\ out.op = "assign_emotion"
    /\ out.text = "tree"
    /\ out.tags = "stoic"
    /\ EntriesPresent(out.text, out.tags) = {}
    /\ out.result = "general"

\* The stored emotion of a corpus row, in either layout
StoredEmotion(row) ==
    IF "assigned_emotion" \in DOMAIN row THEN row.assigned_emotion ELSE row.emotion

\* The rows of df whose stored emotion equals the label, case-insensitively
Labelled(df, emotion) ==
    SelectSeq(df.rows, LAMBDA row : Lower(StoredEmotion(row)) = Lower(emotion))

\* The candidates of a label: its rows of at most max_words words, in corpus order
Candidates(df, emotion) ==
    SelectSeq(Labelled(df, emotion),
              LAMBDA row : word_count(QuoteText(row)) <= max_words)

\* The texts of a sequence of corpus rows, and of a sequence of returned quotes
RowTexts(rows) == Map(QuoteText, rows)
ResultTexts(quotes) == Map(LAMBDA q : q.text, quotes)

\* The emotion the engine classifies a request text as
Classified(user_input) ==
    analyze_sentiment(is_loaded, emotion_classifier, user_input).primary_emotion

\* The grief Relevance Rule of the design: a death keyword AND a relationship
\* keyword
grief_rule ==
    [emotion |-> "grief",
     primary_keywords |-> {"death", "died", "dead", "dying", "loss", "lost",
                           "passed away", "funeral", "grave"},
     secondary_keywords |-> {"mother", "father", "mom", "dad", "parent", "family",
                             "friend", "wife", "husband", "son", "daughter",
                             "brother", "sister", "child", "loved one"}]

\* The breakup-context keywords of the design
breakup_keywords == {"breakup", "heartbreak", "dumped", "ex-"}

\* any keyword of the set occurs in the lowercased text
ContainsAny(text, keywords) == \E kw \in keywords : Contains(Lower(text), kw)

\* A quote passes a Relevance Rule iff its text contains a primary keyword AND a
\* secondary keyword
PassesRule(rule, text) ==
    /\ ContainsAny(text, rule.primary_keywords)
    /\ ContainsAny(text, rule.secondary_keywords)

C4_HealthAlways200 ==
    out.op = "GET /health" =>
        /\ out.code = 200
        /\ {"status", "timestamp", "engine_loaded", "dataset_info"} \subseteq out.keys

\* C5: with the vectorizer or the classifier absent, analyze_sentiment returns
\* the label the rule-based classifier (assign_emotion over the taxonomy) returns
\* for the text.
C5_FallbackIsRuleBased ==
    (/\ out.op = "analyze_sentiment"
     /\ (vectorizer = NoneObj \/ emotion_classifier = NoneObj))
    => out.result.primary_emotion = assign_emotion(out.user_input, None)

\* C6: when the classified emotion is grief, every quote returned for the request
\* passes the grief rule (a death keyword and a relationship keyword in its text).
C6_GriefQuotesPassRule ==
    (/\ out.op = "get_recommendations"
     /\ is_loaded
     /\ Classified(out.user_input) = "grief")
    => \A i \in 1..Len(out.result) : PassesRule(grief_rule, out.result[i].text)

\* C7: when the classified emotion is love and the user text holds a breakup
\* keyword, the quotes returned come from the breakup rule or its relaxed
\* fallback, so each of them contains at least one breakup keyword.
C7_BreakupOverride ==
    (/\ out.op = "get_recommendations"
     /\ is_loaded
     /\ Classified(out.user_input) = "love"
     /\ ContainsAny(out.user_input, breakup_keywords))
    => \A i \in 1..Len(out.result) :
           ContainsAny(out.result[i].text, breakup_keywords)

\* C8: when no quote has the label and the label is not 'general', the selection
\* is retried with 'general': the quotes selected are min(top_k, number of
\* candidates) of the quotes labelled 'general'.
C8_RetryWithGeneral ==
    (/\ out.op = "_get_emotion_based_quotes"
     /\ quotes_df # NoneObj
     /\ out.emotion # "general"
     /\ Labelled(quotes_df, out.emotion) = <<>>)
    => /\ ~out.result.raised
       /\ LET general == RowTexts(Candidates(quotes_df, "general"))
              got == ResultTexts(out.result.value)
          IN  /\ Len(got) = IF Len(general) <= out.top_k
                            THEN Len(general) ELSE out.top_k
              /\ Range(got) \subseteq Range(general)

\* C9: when emotion matching and the length filter leave no candidate, the
\* request yields an empty list.
C9_NoCandidatesNoResults ==
    (/\ out.op = "get_recommendations"
     /\ is_loaded
     /\ "quote" \in quotes_df.columns
     /\ Candidates(quotes_df, Classified(out.user_input)) = <<>>)
    => out.result = <<>>

\* C10: the selection returns all candidates in the order received when there
\* are at most top_k of them, and otherwise exactly top_k pairwise distinct
\* members of the candidates.
C10_SelectorContract ==
    (/\ out.op = "_get_emotion_based_quotes"
     /\ quotes_df # NoneObj
     /\ ~out.result.raised)
    => LET cands == RowTexts(Candidates(quotes_df, out.emotion))
           got == ResultTexts(out.result.value)
       IN  IF Len(cands) <= out.top_k
           THEN got = cands
           ELSE /\ Len(got) = out.top_k
                /\ \A i, j \in 1..Len(got) : i # j => got[i] # got[j]
                /\ Range(got) \subseteq Range(cands)

\* C10, its case: three candidates and top_k = 2, two distinct ones returned
C10_Witness ==
    /\ out.op = "_get_emotion_based_quotes"
    /\ quotes_df # NoneObj
    /\ ~out.result.raised
    /\ Len(Candidates(quotes_df, out.emotion)) = 3
    /\ out.top_k = 2
    /\ Len(out.result.value) = 2
    /\ out.result.value[1].text # out.result.value[2].text

C12_LengthThresholds ==
    /\ out.op = "_filter_quotes_by_length" =>
         /\ ~out.result.raised
         /\ out.words = 50 => Len(out.result.value.rows) = 1
         /\ out.words = 51 => out.result.value.rows = <<>>
         /\ (Len(out.result.value.rows) = 1) <=> (out.words <= 50)
    /\ out.op = "length filter" =>
         /\ out.words = 65 => Len(out.result) = 1
         /\ out.words = 66 => out.result = <<>>
         /\ (Len(out.result) = 1) <=> (out.words <= 65)

\* C12, its case: a quote of 50 words separated by double spaces is kept by the
\* serving filter
C12_Witness ==
    /\ out.op = "_filter_quotes_by_length"
    /\ out.words = 50
    /\ out.quote = WordsText(50, "  ")
    /\ ~out.result.raised
    /\ Len(out.result.value.rows) = 1

\* C13: filtering the corpus by a label present in it returns only rows whose
\* stored label equals it case-insensitively, and every such row, whatever its
\* length (the rows returned are the matching rows in corpus order).
C13_FilterByLabel ==
    (/\ out.op \in {"emotion_quotes", "test emotion_quotes"}
     /\ \E i \in DOMAIN quotes_df.rows : StoredEmotion(quotes_df.rows[i]) = out.emotion)
    => /\ \A j \in DOMAIN out.result :
              Lower(StoredEmotion(out.result[j])) = Lower(out.emotion)
       /\ \A i \in DOMAIN quotes_df.rows :
              Lower(StoredEmotion(quotes_df.rows[i])) = Lower(out.emotion)
              => \E j \in DOMAIN out.result : out.result[j] = quotes_df.rows[i]
       /\ Len(out.result) =
              Cardinality({i \in DOMAIN quotes_df.rows :
                  Lower(StoredEmotion(quotes_df.rows[i])) = Lower(out.emotion)})

\* C13, its case: the label 'grief' on a corpus storing it as 'grief' and as
\* 'Grief', one of the rows longer than the serving limit; all three are returned
C13_Witness ==
    /\ out.op = "emotion_quotes"
    /\ out.emotion = "grief"
    /\ Len(out.result) = 3
    /\ \E j \in DOMAIN out.result : StoredEmotion(out.result[j]) = "Grief"
    /\ \E j \in DOMAIN out.result : StoredEmotion(out.result[j]) = "grief"
    /\ \E j \in DOMAIN out.result : word_count(QuoteText(out.result[j])) > max_words

\* C14: a constructed corpus holds no text twice, and the record kept for a text
\* is its first occurrence in source order: it has the author (and the tags,
\* category or label, where the frame has them) of the first source row with
\* that text.
C14_FirstOccurrenceSurvives ==
    (/\ out.op \in {"merge_all_archive_quotes", "merge_and_label_quotes",
                    "train_simple_system", "load_dataset"}
     /\ out.status \in {"saved", "loaded"})
    => /\ \A i, j \in DOMAIN out.corpus :
              i # j => QuoteText(out.corpus[i]) # QuoteText(out.corpus[j])
       /\ \A i \in DOMAIN out.corpus :
              \E k \in DOMAIN out.source :
                  /\ QuoteText(out.source[k]) = QuoteText(out.corpus[i])
                  /\ \A m \in 1..(k - 1) :
                         QuoteText(out.source[m]) # QuoteText(out.corpus[i])
                  /\ \A c \in DOMAIN out.source[k] :
                         out.corpus[i][c] = out.source[k][c]

\* C14, its case: the archive merge on two sources holding the same quote under
\* different authors and tags; the corpus has it once, as the first source has it
C14_Witness ==
    /\ out.op = "merge_all_archive_quotes"
    /\ out.status = "saved"
    /\ \E k, m \in DOMAIN out.source :
           /\ k < m
           /\ out.source[k].quote = out.source[m].quote
           /\ out.source[k].author # out.source[m].author
           /\ out.source[k].tags # out.source[m].tags
           /\ \E i \in DOMAIN out.corpus :
                  /\ out.corpus[i].quote = out.source[k].quote
                  /\ out.corpus[i].author = out.source[k].author
                  /\ out.corpus[i].tags = out.source[k].tags

\* C15: de-duplication is idempotent: applied to a frame that was already
\* de-duplicated it returns the same records in the same order.
C15_DedupIdempotent ==
    out.op = "drop_duplicates again" => out.result = out.rows

\* C15, its case: a frame of three rows, two of them with the same quote, was
\* de-duplicated to two rows, and de-duplicating those again returns both
C15_Witness ==
    /\ out.op = "drop_duplicates again"
    /\ Len(out.frame) = 3
    /\ Len(out.rows) = 2
    /\ out.rows[1].quote = "Stay curious"
    /\ out.rows[1].author = "Cy"
    /\ out.rows[2].quote = "Love heals"
    /\ out.result = out.rows

\* C16: every record of a constructed corpus (the output of the archive merge
\* and the corpus a training pass saves) has a text that is non-empty after
\* trimming.
C16_NoEmptyText ==
    (/\ out.op \in {"merge_all_archive_quotes", "train_simple_system",
                    "create_training_data"}
     /\ out.status = "saved")
    => \A i \in DOMAIN out.corpus : Strip(QuoteText(out.corpus[i])) # ""

\* C17: in the archive merge a source that is missing or cannot be normalized
\* to (quote, author, tags) is skipped with a log line and the other sources
\* are still processed: the script never ends inside the loop, and each of the
\* four sources leaves its line ([OK] or [SKIP]) in the log.
C17_BadSourceIsSkipped ==
    out.op = "merge_all_archive_quotes"
    => /\ out.status # "raised"
       /\ Len(out.log) = Len(files)

\* The tags of a corpus record: its tags column, or the category the dataset
\* gave it
RowTags(row) ==
    IF "tags" \in DOMAIN row THEN row.tags
    ELSE IF "category" \in DOMAIN row THEN row.category
    ELSE IF "original_emotion" \in DOMAIN row THEN row.original_emotion
    ELSE ""

\* The labelled records an operation produced: the training examples of
\* create_training_data, the saved corpus of the others
LabelledRecords ==
    IF out.op = "create_training_data" THEN out.training_data ELSE out.corpus

\* C18: the emotion label stored with every quote of the archive-merge output
\* and of the labelled corpus of the training passes is the label the
\* rule-based classifier (assign_emotion) returns for the quote's text and tags.
C18_StoredLabelIsRuleLabel ==
    (/\ out.op \in {"merge_all_archive_quotes", "train_simple_system",
                    "create_training_data"}
     /\ out.status = "saved")
    => \A i \in DOMAIN LabelledRecords :
           StoredEmotion(LabelledRecords[i]) =
               assign_emotion(QuoteText(LabelledRecords[i]),
                              RowTags(LabelledRecords[i]))

\* The closed set of emotion labels
EmotionLabels ==
    {"grief", "depression", "anxiety", "motivation", "resilience", "mindfulness",
     "happiness", "love", "wisdom", "hope", "general"}

\* C19: every label a labelling pass assigns to a quote (assign_emotion in the
\* merge scripts, train_simple_system, create_training_data) is one of the
\* eleven labels of the closed set.
C19_LabelsInClosedSet ==
    (/\ out.op \in {"merge_all_archive_quotes", "merge_and_label_quotes",
                    "train_simple_system", "create_training_data"}
     /\ out.status = "saved")
    => \A i \in DOMAIN LabelledRecords :
           StoredEmotion(LabelledRecords[i]) \in EmotionLabels

\* C20: whatever goes wrong while one of the four endpoints handles a request
\* is caught in the handler: a 500 answer is the handler's own JSON body with
\* an error field and status 'error'.
C20_ErrorsAreCaught ==
    (/\ out.op \in {"GET /health", "POST /recommendations", "GET /quotes",
                    "GET /emotions"}
     /\ out.code = 500)
    => /\ "error" \in out.keys
       /\ out.status = "error"

\* C21: with no corpus loaded GET /quotes answers 500 with an error field, with
\* no classifier loaded GET /emotions answers 500 with an error field, and in
\* both states the other endpoints answer with their specified status: 200 for
\* GET /health, for GET /quotes on a loaded corpus and for GET /emotions on a
\* loaded classifier, 200 for POST /recommendations with a text and 400 without.
C21_UnavailableResourceIs500 ==
    (pc = "serving" /\ (quotes_df = NoneObj \/ emotion_classifier = NoneObj))
    => /\ (out.op = "GET /quotes" /\ quotes_df = NoneObj)
              => (out.code = 500 /\ "error" \in out.keys)
       /\ (out.op = "GET /emotions" /\ emotion_classifier = NoneObj)
              => (out.code = 500 /\ "error" \in out.keys)
       /\ (out.op = "GET /quotes" /\ quotes_df # NoneObj) => out.code = 200
       /\ (out.op = "GET /emotions" /\ emotion_classifier # NoneObj)
              => out.code = 200
       /\ out.op = "GET /health" => out.code = 200
       /\ (out.op = "POST /recommendations" /\ out.request.json
           /\ out.request.text # None)
              => out.code = (IF Strip(out.request.text) = "" THEN 400 ELSE 200)

\* C22: after start-up no request changes the shared engine state: every step
\* taken while serving leaves quotes_df, vectorizer, emotion_classifier,
\* metadata and is_loaded as load_models left them.
C22_RequestsLeaveEngine ==
    [][pc = "serving" => UNCHANGED engine]_vars

\* C22, its case: GET /quotes answered with fewer quotes than the corpus holds
\* (the length filter dropped one from the answer), the corpus still complete
C22_Witness ==
    /\ out.op = "GET /quotes"
    /\ out.code = 200
    /\ is_loaded
    /\ Len(out.quotes) < Len(quotes_df.rows)
    /\ out.total_quotes = Len(quotes_df.rows)
    /\ \E i \in DOMAIN quotes_df.rows : quotes_df.rows[i].quote = LongQuote

\* C23: whatever the interleaving of the requests handled at the same time,
\* each answered POST /recommendations carries the recommended_quotes and the
\* emotion_detected the engine gives for that request's own text, as when the
\* request is handled alone.
C23_InterleavingIsInvisible ==
    out.op = "requests" =>
        \A id \in RequestIds :
            (out.requests[id].at = "responded" /\ out.requests[id].code = 200)
            => /\ out.requests[id].recommended_quotes =
                      get_recommendations(is_loaded, vectorizer, emotion_classifier,
                          quotes_df, out.requests[id].user_input, RouteTopK)
               /\ out.requests[id].emotion_detected =
                      analyze_sentiment(is_loaded, emotion_classifier,
                          out.requests[id].user_input).primary_emotion

\* C23, its case: on a loaded engine a request was answered with emotion-based
\* quotes while another request, with a text of another emotion, is between its
\* steps
C23_Witness ==
    /\ out.op = "requests"
    /\ is_loaded
    /\ \E id, other \in RequestIds :
        /\ id # other
        /\ out.requests[id].at = "responded"
        /\ out.requests[id].code = 200
        /\ out.requests[id].recommended_quotes # <<>>
        /\ out.requests[id].recommended_quotes[1].match_type = "emotion_based"
        /\ out.requests[other].at = "recommended"
        /\ out.requests[other].sentiment_analysis.primary_emotion
               # out.requests[id].emotion_detected

\* The keywords the taxonomy declares for an emotion
KeywordsOf(label) ==
    (CHOOSE i \in DOMAIN EMOTION_KEYWORDS : EMOTION_KEYWORDS[i].label = label)

\* C24: an input with the scenario's worrying or anxious clause, the scenario
\* input "I can't stop worrying, my heart is racing, I'm so anxious" among them,
\* is classified 'anxiety': its lowercased text holds no keyword of grief or of
\* depression, the emotions declared before anxiety, and holds an anxiety
\* keyword.
C24_WorryIsAnxiety ==
    (/\ pc = "scenario"
     /\ out.op \in {"assign_emotion", "_fallback_sentiment_analysis"}
     /\ (Contains(out.text, "worrying") \/ Contains(out.text, "anxious")))
    => /\ out.emotion = "anxiety"
       /\ ~AnyKeyword(Lower(out.text), EMOTION_KEYWORDS[KeywordsOf("grief")].keywords)
       /\ ~AnyKeyword(Lower(out.text),
                      EMOTION_KEYWORDS[KeywordsOf("depression")].keywords)
       /\ AnyKeyword(Lower(out.text), EMOTION_KEYWORDS[KeywordsOf("anxiety")].keywords)

\* C24, its case: the scenario input itself, classified without tags
C24_Witness ==
    /\ out.op = "assign_emotion"
    /\ out.text = ScenarioText
    /\ out.tags = None
    /\ out.emotion = "anxiety"


\* C26: the list get_recommendations returns never holds the same quote text
\* twice, the quotes added by similarity included.
C26_QuotesAreDistinct ==
    (pc = "serving" /\ out.op = "get_recommendations")
    => \A i, j \in DOMAIN out.result :
           out.result[i].text = out.result[j].text => i = j


\* C27: get_recommendations returns at most top_k results, for every input,
\* every top_k >= 0 and every engine state; what it returns in fallback mode is
\* a prefix of the two built-in default quotes, so at most two results. The
\* route asks for five.
C27_AtMostTopK ==
    LET Capped(result, top_k) ==
            /\ Len(result) <= top_k
            /\ (~is_loaded \/ \E i \in DOMAIN result :
                                  result[i].match_type = "fallback")
               => /\ Len(result) <= 2
                  /\ \A i \in DOMAIN result : result[i] = default_quotes[i]
    IN  pc = "serving" =>
            /\ out.op = "get_recommendations" => Capped(out.result, out.top_k)
            /\ (out.op = "POST /recommendations" /\ out.code = 200)
                   => Capped(out.recommended_quotes, 5)

\* C27, its case: on a loaded engine one quote was asked for and one came back,
\* chosen by emotion, though the corpus holds two short quotes of that emotion
C27_Witness ==
    /\ pc = "serving"
    /\ out.op = "get_recommendations"
    /\ is_loaded
    /\ out.top_k = 1
    /\ Len(out.result) = 1
    /\ out.result[1].match_type = "emotion_based"
    /\ \E i, j \in DOMAIN quotes_df.rows :
        /\ i # j
        /\ quotes_df.rows[i].assigned_emotion = out.result[1].detected_emotion
        /\ quotes_df.rows[j].assigned_emotion = out.result[1].detected_emotion
        /\ quotes_df.rows[i].quote # LongQuote
        /\ quotes_df.rows[j].quote # LongQuote


\* C28: when load_models has returned, is_loaded is true exactly when the
\* vectorizer, the classifier and the corpus are all there, whatever
\* metadata.json holds, and load_models returned True exactly in that case.
C28_LoadedIffEssential ==
    (pc = "serving" /\ out.op = "load_models")
    => LET essential == /\ vectorizer # NoneObj
                        /\ emotion_classifier # NoneObj
                        /\ quotes_df # NoneObj
       IN  /\ is_loaded <=> essential
           /\ out.result <=> essential


\* C29: every quote get_recommendations returns, whatever its match_type, has
\* at most 50 words; a quote of 51 to 65 words, which the archive merge keeps in
\* the corpus, is never recommended.
C29_ShortQuotesOnly ==
    LET Short(result) ==
            \A i \in DOMAIN result :
                /\ word_count(result[i].text) <= 50
                /\ result[i].text # LongQuote
    IN  pc = "serving" =>
            /\ out.op = "get_recommendations" => Short(out.result)
            /\ (out.op = "POST /recommendations" /\ out.code = 200)
                   => Short(out.recommended_quotes)

\* C29, its case: the corpus holds a quote of 51 words labelled with the
\* detected emotion, fewer quotes came back than were asked for, and a short
\* quote chosen by emotion is among them
C29_Witness ==
    /\ pc = "serving"
    /\ out.op = "get_recommendations"
    /\ is_loaded
    /\ word_count(LongQuote) = 51
    /\ out.result # <<>>
    /\ Len(out.result) < out.top_k
    /\ out.result[1].match_type = "emotion_based"
    /\ \E i \in DOMAIN quotes_df.rows :
        /\ quotes_df.rows[i].quote = LongQuote
        /\ quotes_df.rows[i].assigned_emotion = out.result[1].detected_emotion


\* C30: on a loaded engine, whichever layout the corpus has (quote and
\* assigned_emotion, or text and emotion), when the corpus holds a quote of at
\* most 50 words labelled with the detected emotion and at least one quote is
\* asked for, get_recommendations returns an 'emotion_based' result, not the
\* fallback defaults.
C30_EitherLayoutIsServed ==
    (/\ pc = "serving"
     /\ out.op = "get_recommendations"
     /\ is_loaded
     /\ out.top_k >= 1
     /\ \E i \in DOMAIN quotes_df.rows :
            /\ word_count(QuoteText(quotes_df.rows[i])) <= 50
            /\ StoredEmotion(quotes_df.rows[i])
                   = analyze_sentiment(is_loaded, emotion_classifier,
                                       out.user_input).primary_emotion)
    => /\ \E i \in DOMAIN out.result : out.result[i].match_type = "emotion_based"
       /\ \A i \in DOMAIN out.result : out.result[i].match_type # "fallback"

====
